---- MODULE Spec2Model ----
(***************************************************************************)
(* Model of the workflow execution engine of app/tasks/workflow_tasks.py:  *)
(* the graph scheduler (build_execution_order), the node dispatcher        *)
(* (execute_node and the handlers it calls) and the run state machine      *)
(* (execute_workflow, update_execution_status, log_message and the Celery  *)
(* task wrapper execute_workflow_task).                                    *)
(*                                                                         *)
(* The specifications share the variables:                                 *)
(*   SpecOrder   build_execution_order applied to bounded graphs           *)
(*   Spec        one delivery of the execution id; every persistence and   *)
(*               progress call may raise, and the workflow of the run may  *)
(*               be deleted between any two steps of the invocation        *)
(*   SpecDup     the execution id is delivered up to MaxDeliveries times,  *)
(*               the invocations interleave at every query, clock read,    *)
(*               commit, reload of the row, handler call and progress      *)
(*               update; here and below the rows stay in the store         *)
(*   SpecCancel  one delivery, and an external actor may set the stored    *)
(*               status to cancelled while the run is running              *)
(*   SpecApi     the workflow and execution endpoints of the API and the   *)
(*               public methods of WorkflowService: MaxRequests handlers,  *)
(*               each with its own session, interleaved at every select,   *)
(*               commit, refresh and call of .delay                        *)
(*   SpecEval    one call of a handler function or of                      *)
(*               validate_workflow_definition on drawn arguments           *)
(*   SpecFlow    one delivery without persistence faults, over definitions *)
(*               of every node kind                                        *)
(*   SpecPair    two executions, each with its own executor, interleaved   *)
(*   SpecWs      the notification channel: ConnectionManager, the event    *)
(*               coroutines and the websocket endpoints                    *)
(***************************************************************************)
EXTENDS Integers, Sequences, FiniteSets, TLC

\* Bounds of the model.
MaxNodes == 3
MaxConns == 2
MaxRunNodes == 2
MaxDeliveries == 2
MaxTerms == 3
MaxParts == 4
MaxSegs == 3
MaxEvents == 1
MaxWorkflows == 1
MaxRequests == 2
MaxOps == 5

VARIABLES
    definition,     \* Workflow.definition: [nodes, connections]
    schedule,       \* SpecOrder: [done, order], the value build_execution_order returned
    queue,          \* deliveries of the execution id the task queue still holds
    wk,             \* per invocation: the WorkflowExecutor's position and locals
    status,         \* Execution.status (stored)
    started_at,     \* Execution.started_at (stored; 0 is NULL)
    completed_at,   \* Execution.completed_at (stored; 0 is NULL)
    error_message,  \* Execution.error_message (stored; "" is NULL)
    output_data,    \* Execution.output_data (stored): [present, items]
    logs,           \* execution_logs rows of the run, in insertion order
    now,            \* the clock datetime.utcnow() reads
    statusHist,     \* history: every value the stored status has had, in order
    cancelled,      \* history: the external actor has set the status to cancelled
    mayFail,        \* whether commits and progress updates may raise in this behaviour
    present,        \* which rows the store holds: [execution, workflow]; the
                    \* variables of the columns are the row's while it exists
    api,            \* SpecApi: the workflow rows, the request handlers and the last answer
    call,           \* SpecEval: one call of a pure function, [fn, args, done, result]
    eid,            \* the execution id of the run the variables above show
    peer,           \* SpecPair: the rows and the executor of the other execution
    ws              \* SpecWs: the ConnectionManager and the coroutines using it

vars == <<definition, schedule, queue, wk, status, started_at, completed_at,
          error_message, output_data, logs, now, statusHist, cancelled, mayFail,
          present, api, call, eid, peer, ws>>

-----------------------------------------------------------------------------
(* Python values *)

\* s.index(x): the position of the first x in s (counted from 1)
Pos(s, x) == CHOOSE i \in 1..Len(s) : s[i] = x /\ \A j \in 1..(i - 1) : s[j] # x

\* {} : the empty dict
EmptyDict == [k \in {} |-> k]

\* A dict with insertion-ordered keys: [keys |-> sequence, val |-> function].
NewDict == [keys |-> <<>>, val |-> EmptyDict]

InSeq(s, x) == \E i \in 1..Len(s) : s[i] = x

\* d[k] = v : a new key goes last, an existing key keeps its place
DictSet(d, k, v) ==
    [keys |-> IF InSeq(d.keys, k) THEN d.keys ELSE Append(d.keys, k),
     val  |-> (k :> v) @@ d.val]

\* d[k] of a defaultdict(int)
DictGet(d, k) == IF k \in DOMAIN d.val THEN d.val[k] ELSE 0

-----------------------------------------------------------------------------
(* Python strings and JSON values *)

\* A str is the sequence of its characters. A JSON value carries its type:
\* [t |-> "str" | "int" | "bool" | "none" | "list" | "dict", v |-> ...]; a list
\* holds the sequence of its items, a dict the sequence of its <<key, value>>
\* pairs in insertion order (keys are strs, each at most once).
PyStr(cs) == [t |-> "str", v |-> cs]
PyInt(n) == [t |-> "int", v |-> n]
PyBool(b) == [t |-> "bool", v |-> b]
PyNone == [t |-> "none", v |-> 0]
PyList(items) == [t |-> "list", v |-> items]
PyDict(pairs) == [t |-> "dict", v |-> pairs]

\* A str the model holds whole, as the text of an exception message
PyText(s) == [t |-> "text", v |-> s]

Lower == {"a", "b", "c", "d", "e", "f", "g", "h", "i", "j", "k", "l", "m",
          "n", "o", "p", "q", "r", "s", "t", "u", "v", "w", "x", "y", "z"}
Upper == {"A", "B", "C", "D", "E", "F", "G", "H", "I", "J", "K", "L", "M",
          "N", "O", "P", "Q", "R", "S", "T", "U", "V", "W", "X", "Y", "Z"}
DigitChars == <<"0", "1", "2", "3", "4", "5", "6", "7", "8", "9">>
Digits == {DigitChars[i] : i \in 1..Len(DigitChars)}

\* \w of the re module
WordChar(c) == c \in Lower \cup Upper \cup Digits \cup {"_"}

\* The characters str.strip() removes (of those the model's strings hold)
Whitespace == {" "}

DigitValue(c) == (CHOOSE i \in 1..Len(DigitChars) : DigitChars[i] = c) - 1

RECURSIVE NatStr(_)
\* str(n) for n >= 0
NatStr(n) ==
    IF n < 10 THEN <<DigitChars[n + 1]>>
    ELSE NatStr(n \div 10) \o <<DigitChars[(n % 10) + 1]>>

\* str(n) of an int
IntStr(n) == IF n < 0 THEN <<"-">> \o NatStr(0 - n) ELSE NatStr(n)

RECURSIVE Join(_, _)
\* sep.join(parts)
Join(parts, sep) ==
    IF parts = <<>> THEN <<>>
    ELSE IF Len(parts) = 1 THEN parts[1]
    ELSE parts[1] \o sep \o Join(Tail(parts), sep)

RECURSIVE Str(_)
RECURSIVE Repr(_)
\* str(value)
Str(x) ==
    CASE x.t = "str" -> x.v
      [] x.t = "int" -> IntStr(x.v)
      [] x.t = "bool" -> IF x.v THEN <<"T", "r", "u", "e">>
                         ELSE <<"F", "a", "l", "s", "e">>
      [] x.t = "none" -> <<"N", "o", "n", "e">>
      [] x.t = "list" ->
            <<"[">> \o Join([i \in 1..Len(x.v) |-> Repr(x.v[i])], <<",", " ">>)
                    \o <<"]">>
      [] x.t = "dict" ->
            <<"{">> \o Join([i \in 1..Len(x.v) |->
                               Repr(PyStr(x.v[i][1])) \o <<":", " ">> \o Repr(x.v[i][2])],
                            <<",", " ">>)
                    \o <<"}">>

\* repr(value): a str in quotes (the model's strs hold no quote or backslash)
Repr(x) == IF x.t = "str" THEN <<"'">> \o x.v \o <<"'">> ELSE Str(x)

\* The position of key k among the pairs of a dict, 0 when k is no key
KeyIndex(pairs, k) ==
    IF \E i \in 1..Len(pairs) : pairs[i][1] = k
    THEN CHOOSE i \in 1..Len(pairs) : pairs[i][1] = k
    ELSE 0

\* d.get(k): the value, None when k is no key
PyGet(d, k) == IF KeyIndex(d.v, k) = 0 THEN PyNone ELSE d.v[KeyIndex(d.v, k)][2]

\* sub in s, for strs: the substring occurs at position i
OccursAt(s, sub, i) ==
    /\ i + Len(sub) - 1 <= Len(s)
    /\ \A k \in 1..Len(sub) : s[i + k - 1] = sub[k]

Contains(s, sub) == \E i \in 1..(Len(s) + 1) : OccursAt(s, sub, i)

\* s.split(sep, 1) when sep occurs in s: the text before its first occurrence
\* and the text after it
SplitOnce(s, sep) ==
    LET i == CHOOSE j \in 1..(Len(s) + 1) :
                 OccursAt(s, sep, j) /\ \A k \in 1..(j - 1) : ~OccursAt(s, sep, k)
    IN  <<SubSeq(s, 1, i - 1), SubSeq(s, i + Len(sep), Len(s))>>

RECURSIVE LStrip(_)
LStrip(s) == IF s # <<>> /\ Head(s) \in Whitespace THEN LStrip(Tail(s)) ELSE s

RECURSIVE RStrip(_)
RStrip(s) ==
    IF s # <<>> /\ s[Len(s)] \in Whitespace THEN RStrip(SubSeq(s, 1, Len(s) - 1)) ELSE s

\* s.strip()
Strip(s) == RStrip(LStrip(s))

RECURSIVE Split(_, _)
\* s.split(c) for a one-character separator c
Split(s, c) ==
    IF \E i \in 1..Len(s) : s[i] = c
    THEN LET i == CHOOSE j \in 1..Len(s) : s[j] = c /\ \A k \in 1..(j - 1) : s[k] # c
         IN  <<SubSeq(s, 1, i - 1)>> \o Split(SubSeq(s, i + 1, Len(s)), c)
    ELSE <<s>>

\* s.isdigit()
IsDigit(s) == s # <<>> /\ \A i \in 1..Len(s) : s[i] \in Digits

RECURSIVE NatValue(_)
\* int(s) of a str of digits
NatValue(s) ==
    IF s = <<>> THEN 0 ELSE NatValue(SubSeq(s, 1, Len(s) - 1)) * 10 + DigitValue(s[Len(s)])

RECURSIVE Pow10(_)
Pow10(k) == IF k = 0 THEN 1 ELSE 10 * Pow10(k - 1)

AllDigits(s) == \A i \in 1..Len(s) : s[i] \in Digits

\* float(s) for strs over digits, sign, point, space and other characters
\* without exponent, "inf", "nan" or "_": [ok, num, den], the value num / den
\* when s, stripped, is [sign] digits [. digits] or [sign] . digits; ok = FALSE
\* where float raises ValueError
ParseFloat(s) ==
    LET t == Strip(s)
        signed == t # <<>> /\ Head(t) \in {"+", "-"}
        u == IF signed THEN Tail(t) ELSE t
        parts == Split(u, ".")
        whole == parts[1]
        frac == IF Len(parts) = 2 THEN parts[2] ELSE <<>>
        ok == /\ Len(parts) <= 2
              /\ AllDigits(whole)
              /\ AllDigits(frac)
              /\ Len(whole) + Len(frac) > 0
        mag == NatValue(whole) * Pow10(Len(frac)) + NatValue(frac)
    IN  IF ok
        THEN [ok |-> TRUE,
              num |-> IF signed /\ Head(t) = "-" THEN 0 - mag ELSE mag,
              den |-> Pow10(Len(frac))]
        ELSE [ok |-> FALSE, num |-> 0, den |-> 1]

-----------------------------------------------------------------------------
(* Template resolver: WorkflowExecutor.replace_variables *)

RECURSIVE WordRunEnd(_, _)
\* The position after the longest run of \w characters that starts at i
WordRunEnd(s, i) ==
    IF i <= Len(s) /\ WordChar(s[i]) THEN WordRunEnd(s, i + 1) ELSE i

\* re.match of \{\{(\w+)\}\} at position i: the position of the last character
\* of the match, 0 for no match
MatchEnd(s, i) ==
    LET k == WordRunEnd(s, i + 2)
    IN  IF /\ OccursAt(s, <<"{", "{">>, i)
           /\ k > i + 2
           /\ OccursAt(s, <<"}", "}">>, k)
        THEN k + 1
        ELSE 0

ReplaceVarKeep(name, whole, context) == whole
\* replace_var: str(context.get(var_name, match.group(0)))
replace_var(name, whole, context) ==
    IF KeyIndex(context.v, name) = 0 THEN whole ELSE Str(PyGet(context, name))

RECURSIVE SubRescanning(_, _, _)
SubRescanning(s, i, context) ==
    IF i > Len(s) THEN <<>>
    ELSE LET j == MatchEnd(s, i)
             name == SubSeq(s, i + 2, j - 2)
         IN  IF j = 0 \/ KeyIndex(context.v, name) = 0
             THEN <<s[i]>> \o SubRescanning(s, i + 1, context)
             ELSE SubRescanning(Str(PyGet(context, name)) \o SubSeq(s, j + 1, Len(s)),
                                1, context)

RECURSIVE Sub(_, _, _)
\* re.sub(r'\{\{(\w+)\}\}', replace_var, template) from position i on: the
\* matches are found left to right, the text between them is copied
Sub(s, i, context) ==
    IF i > Len(s) THEN <<>>
    ELSE LET j == MatchEnd(s, i)
         IN  IF j = 0 THEN <<s[i]>> \o Sub(s, i + 1, context)
             ELSE replace_var(SubSeq(s, i + 2, j - 2), SubSeq(s, i, j), context)
                    \o Sub(s, j + 1, context)

RECURSIVE replace_variables(_, _)
replace_variables(template, context) ==
    CASE template.t = "str" -> PyStr(Sub(template.v, 1, context))
      [] template.t = "dict" ->
            PyDict([i \in 1..Len(template.v) |->
                       <<template.v[i][1], replace_variables(template.v[i][2], context)>>])
      [] template.t = "list" ->
            PyList([i \in 1..Len(template.v) |-> replace_variables(template.v[i], context)])
      [] OTHER -> template

-----------------------------------------------------------------------------
(* Condition evaluator: WorkflowExecutor.evaluate_condition *)

OpEq == <<" ", "=", "=", " ">>
OpNe == <<" ", "!", "=", " ">>
OpGt == <<" ", ">", " ">>
OpLt == <<" ", "<", " ">>

\* An outcome of a call: the value returned, or the message of the exception
Returned(x) == [raised |-> "", value |-> x]
Raised(e) == [raised |-> e, value |-> PyNone]

\* type(x).__name__
TypeName(x) == IF x.t = "none" THEN "NoneType" ELSE x.t

\* "sep in condition" for a condition that is no str: a list holds it as an
\* item, a dict as a key; any other value raises TypeError
HoldsItem(c, sep) ==
    IF c.t = "list" THEN \E i \in 1..Len(c.v) : c.v[i].t = "str" /\ c.v[i].v = sep
    ELSE KeyIndex(c.v, sep) # 0

NumericGreaterLenient(l, r) ==
    ParseFloat(l).num * ParseFloat(r).den > ParseFloat(r).num * ParseFloat(l).den
\* float(left.strip()) > float(right.strip()), False on ValueError
NumericGreater(l, r) ==
    LET a == ParseFloat(l)
        b == ParseFloat(r)
    IN  a.ok /\ b.ok /\ a.num * b.den > b.num * a.den

\* evaluate_condition on the resolved condition when it is a str
EvaluateStr(c) ==
    IF Contains(c, OpEq)
    THEN Strip(SplitOnce(c, OpEq)[1]) = Strip(SplitOnce(c, OpEq)[2])
    ELSE IF Contains(c, OpNe)
    THEN Strip(SplitOnce(c, OpNe)[1]) # Strip(SplitOnce(c, OpNe)[2])
    ELSE IF Contains(c, OpGt)
    THEN NumericGreater(SplitOnce(c, OpGt)[1], SplitOnce(c, OpGt)[2])
    ELSE IF Contains(c, OpLt)
    THEN NumericGreater(SplitOnce(c, OpLt)[2], SplitOnce(c, OpLt)[1])
    ELSE Strip(c) # <<>>

\* evaluate_condition: the bool it returns, or the exception it raises. A
\* condition that is no str is not changed by replace_variables unless it is a
\* list or dict; "in" raises TypeError on a value that is no container, and
\* split or strip raise AttributeError on a list or dict.
evaluate_condition(condition, context) ==
    LET c == replace_variables(condition, context)
    IN  IF c.t = "str" THEN Returned(PyBool(EvaluateStr(c.v)))
        ELSE IF c.t \in {"list", "dict"}
        THEN IF \E op \in {OpEq, OpNe, OpGt, OpLt} : HoldsItem(c, op)
             THEN Raised("'" \o c.t \o "' object has no attribute 'split'")
             ELSE Raised("'" \o c.t \o "' object has no attribute 'strip'")
        ELSE Raised("argument of type '" \o TypeName(c) \o "' is not iterable")

K_condition_result ==
    <<"c", "o", "n", "d", "i", "t", "i", "o", "n", "_", "r", "e", "s", "u", "l", "t">>
K_error == <<"e", "r", "r", "o", "r">>
K_result == <<"r", "e", "s", "u", "l", "t">>

ConditionPayloadBare(outcome) ==
    PyDict(<<<<K_condition_result,
               IF outcome.raised = "" THEN outcome.value ELSE PyBool(FALSE)>>>>)
\* The body of the try of execute_condition_node and its except branch, on the
\* outcome of evaluate_condition
ConditionPayload(outcome) ==
    IF outcome.raised = ""
    THEN PyDict(<<<<K_condition_result, outcome.value>>>>)
    ELSE PyDict(<<<<K_condition_result, PyBool(FALSE)>>,
                  <<K_error, PyText(outcome.raised)>>>>)

\* execute_condition_node, past parameters.get("condition", "")
execute_condition_node(condition, context) ==
    ConditionPayload(evaluate_condition(condition, context))

-----------------------------------------------------------------------------
(* http_request: the call execute_http_request_node issues *)

Alphabet == <<"a", "b", "c", "d", "e", "f", "g", "h", "i", "j", "k", "l", "m",
              "n", "o", "p", "q", "r", "s", "t", "u", "v", "w", "x", "y", "z">>
Capitals == <<"A", "B", "C", "D", "E", "F", "G", "H", "I", "J", "K", "L", "M",
              "N", "O", "P", "Q", "R", "S", "T", "U", "V", "W", "X", "Y", "Z">>

\* s.upper()
StrUpper(s) ==
    [i \in 1..Len(s) |->
        IF \E k \in 1..Len(Alphabet) : Alphabet[k] = s[i]
        THEN Capitals[CHOOSE k \in 1..Len(Alphabet) : Alphabet[k] = s[i]]
        ELSE s[i]]

\* d.get(k, default)
PyGetOr(d, k, default) ==
    IF KeyIndex(d.v, k) = 0 THEN default ELSE d.v[KeyIndex(d.v, k)][2]

K_method == <<"m", "e", "t", "h", "o", "d">>
K_url == <<"u", "r", "l">>
K_headers == <<"h", "e", "a", "d", "e", "r", "s">>
K_data == <<"d", "a", "t", "a">>
K_json == <<"j", "s", "o", "n">>

\* method in ["POST", "PUT", "PATCH"]
SendsBody(method) ==
    method \in {<<"P", "O", "S", "T">>, <<"P", "U", "T">>, <<"P", "A", "T", "C", "H">>}

\* execute_http_request_node up to requests.request: the keyword arguments
\* method, url, headers and json of the call, for the node's parameters (a dict
\* whose method, when given, is a str) and the context
http_request_call(parameters, context) ==
    LET method == StrUpper(PyGetOr(parameters, K_method, PyStr(<<"G", "E", "T">>)).v)
        headers == PyGetOr(parameters, K_headers, PyDict(<<>>))
        url == replace_variables(PyGetOr(parameters, K_url, PyStr(<<>>)), context)
        data == replace_variables(PyGetOr(parameters, K_data, PyDict(<<>>)), context)
    IN  PyDict(<<<<K_method, PyStr(method)>>,
                 <<K_url, url>>,
                 <<K_headers, headers>>,
                 <<K_json, IF SendsBody(method) THEN data ELSE PyNone>>>>)

-----------------------------------------------------------------------------
(* json_extract: WorkflowExecutor.extract_json_path *)

CannotAccessPath ==
    <<"C", "a", "n", "n", "o", "t", " ", "a", "c", "c", "e", "s", "s", " ",
      "p", "a", "t", "h", " ">>

ErrorPayload(message) == PyDict(<<<<K_error, message>>>>)

RECURSIVE WalkPath(_, _, _)
\* The for loop of extract_json_path over the parts still to visit
WalkPath(result, parts, path) ==
    IF parts = <<>> THEN PyDict(<<<<K_result, result>>>>)
    ELSE LET part == Head(parts)
         IN  IF result.t = "dict"
             THEN WalkPath(PyGet(result, part), Tail(parts), path)
             ELSE IF result.t = "list" /\ IsDigit(part)
             THEN IF NatValue(part) < Len(result.v)
                  THEN WalkPath(result.v[NatValue(part) + 1], Tail(parts), path)
                  ELSE ErrorPayload(PyText("list index out of range"))
             ELSE ErrorPayload(PyStr(CannotAccessPath \o path))

\* extract_json_path(data, path) for a str path
extract_json_path(data, path) == WalkPath(data, Split(path, "."), path)

-----------------------------------------------------------------------------
(* Graph scheduler: WorkflowExecutor.build_execution_order *)

\* [node["id"] for node in nodes]
NodeIds(nodes) == [i \in 1..Len(nodes) |-> nodes[i].id]

RECURSIVE InitInDegree(_, _)
\* for node in nodes: in_degree[node["id"]] = 0
InitInDegree(nodes, d) ==
    IF nodes = <<>> THEN d
    ELSE InitInDegree(Tail(nodes), DictSet(d, Head(nodes).id, 0))

RECURSIVE CountTargets(_, _)
\* for connection in connections: in_degree[target] += 1
CountTargets(connections, d) ==
    IF connections = <<>> THEN d
    ELSE LET t == Head(connections).target
         IN  CountTargets(Tail(connections), DictSet(d, t, DictGet(d, t) + 1))

\* in_degree after the two loops
BuildInDegree(nodes, connections) ==
    CountTargets(connections, InitInDegree(nodes, NewDict))

RECURSIVE Neighbors(_, _)
\* graph[node_id]: the targets of the connections leaving node_id, in list order
Neighbors(connections, node_id) ==
    IF connections = <<>> THEN <<>>
    ELSE LET c == Head(connections)
             rest == Neighbors(Tail(connections), node_id)
         IN  IF c.source = node_id THEN <<c.target>> \o rest ELSE rest

RECURSIVE ZeroKeys(_, _)
InitialQueueAll(in_degree) == in_degree.keys
\* deque([node_id for node_id in in_degree if in_degree[node_id] == 0])
ZeroKeys(keys, val) ==
    IF keys = <<>> THEN <<>>
    ELSE IF val[Head(keys)] = 0
         THEN <<Head(keys)>> \o ZeroKeys(Tail(keys), val)
         ELSE ZeroKeys(Tail(keys), val)

InitialQueue(in_degree) == ZeroKeys(in_degree.keys, in_degree.val)

RECURSIVE Relax(_, _, _)
\* for neighbor in graph[node_id]: decrement, enqueue on reaching 0
Relax(nbrs, in_degree, q) ==
    IF nbrs = <<>> THEN [in_degree |-> in_degree, queue |-> q]
    ELSE LET n == Head(nbrs)
             d == DictSet(in_degree, n, DictGet(in_degree, n) - 1)
         IN  Relax(Tail(nbrs), d, IF DictGet(d, n) = 0 THEN Append(q, n) ELSE q)

RECURSIVE Kahn(_, _, _, _)
\* while queue: popleft, append to result, relax the neighbours
Kahn(q, result, in_degree, connections) ==
    IF q = <<>> THEN result
    ELSE LET node_id == Head(q)
             r == Relax(Neighbors(connections, node_id), in_degree, Tail(q))
         IN  Kahn(r.queue, Append(result, node_id), r.in_degree, connections)

\* if len(result) != len(nodes): result = [node["id"] for node in nodes]
Fallback(result, nodes) ==
    IF Len(result) # Len(nodes) THEN NodeIds(nodes) ELSE result

build_execution_order(nodes, connections) ==
    LET in_degree == BuildInDegree(nodes, connections)
    IN  Fallback(Kahn(InitialQueue(in_degree), <<>>, in_degree, connections), nodes)

-----------------------------------------------------------------------------
(* Workflow definitions the model draws from *)

\* Node ids, in order of first use. Ids are only compared for equality, so a
\* list of n nodes is drawn up to renaming: its i-th distinct id is IdName[i].
IdName == <<"a", "b", "c", "d", "e", "f">>

\* An id that no node declares.
GhostId == "x"

SetMax(S) == CHOOSE m \in S : \A y \in S : y <= m

\* Which node carries which id: every list of n ids up to renaming, lists with
\* repeated ids included (validate_workflow_definition does not reject them).
IdPatterns(n) ==
    {s \in [1..n -> 1..n] :
        \A i \in 1..n : s[i] <= 1 + SetMax({0} \cup {s[j] : j \in 1..(i - 1)})}

IdSet(nodes) == {nodes[i].id : i \in 1..Len(nodes)}

\* The node kinds the runs use: handlers that always return, and an
\* http_request node; "parameters": null makes parameters.get raise.
NodeKinds ==
    {[type |-> "start", parameters |-> "map"],
     [type |-> "end", parameters |-> "map"],
     [type |-> "http_request", parameters |-> "map"],
     [type |-> "http_request", parameters |-> "null"]}

\* The nodes of an id pattern s with kinds k
NodeList(s, k) ==
    [i \in 1..Len(s) |-> [id |-> IdName[s[i]], type |-> k[i].type,
                          parameters |-> k[i].parameters]]

Conn(s, t) == [source |-> s, target |-> t]

\* Scheduler inputs: any nodes, and any list of at most MaxConns connections
\* over their ids and the undeclared id, dangling references included.
IsSchedDefinition(d) ==
    \E n \in 0..MaxNodes : \E s \in IdPatterns(n) : \E c \in 0..MaxConns :
        LET ns == NodeList(s, [i \in 1..n |-> [type |-> "generic", parameters |-> "map"]])
            ids == IdSet(ns) \cup {GhostId}
        IN  \E cs \in [1..c -> [source : ids, target : ids]] :
                d = [nodes |-> ns, connections |-> cs]

\* Connection lists of the runs. A run depends on the connections only through
\* the order build_execution_order returns, which SpecOrder covers; the runs use
\* one list per outcome: none, a chain against declaration order, a self-loop
\* (cycle fallback), and a dangling target beside a self-loop.
RunConnections(nodes) ==
    LET ids == NodeIds(nodes)
        n == Len(ids)
    IN  IF n = 0 THEN {<<>>}
        ELSE {<<>>,
              [i \in 1..(n - 1) |-> Conn(ids[n + 1 - i], ids[n - i])],
              <<Conn(ids[n], ids[n])>>,
              <<Conn(ids[1], GhostId), Conn(ids[n], ids[n])>>}

\* Run inputs: at most MaxRunNodes nodes of the kinds above
IsRunDefinition(d) ==
    \E n \in 0..MaxRunNodes : \E s \in IdPatterns(n) : \E k \in [1..n -> NodeKinds] :
        \E cs \in RunConnections(NodeList(s, k)) :
            d = [nodes |-> NodeList(s, k), connections |-> cs]

\* Execution.input_data of the run
InputData == [foo |-> 1]

\* The conditions of the condition nodes of the runs: "3 > 2",
\* "{{execution_id}} == e1", "{{n}} > 1", and the values 5 and [" == "], on
\* which evaluate_condition raises
FlowConditions ==
    <<PyStr(<<"3", " ", ">", " ", "2">>),
      PyStr(<<"{", "{">> \o <<"e", "x", "e", "c", "u", "t", "i", "o", "n", "_", "i", "d">>
              \o <<"}", "}", " ", "=", "=", " ", "e", "1">>),
      PyStr(<<"{", "{", "n", "}", "}", " ", ">", " ", "1">>),
      PyInt(5),
      PyList(<<PyStr(<<" ", "=", "=", " ">>)>>)>>

FlowKind(type, parameters, condition) ==
    [type |-> type, parameters |-> parameters, condition |-> condition]

\* The node kinds of the runs without faults: every handler but
\* data_transform, the condition nodes with each of the conditions above, and a
\* condition node with "parameters": null
FlowKinds ==
    <<FlowKind("start", "map", PyStr(<<>>)),
      FlowKind("end", "map", PyStr(<<>>)),
      FlowKind("http_request", "map", PyStr(<<>>)),
      FlowKind("generic", "map", PyStr(<<>>)),
      FlowKind("condition", "map", FlowConditions[1]),
      FlowKind("condition", "map", FlowConditions[2]),
      FlowKind("condition", "map", FlowConditions[3]),
      FlowKind("condition", "map", FlowConditions[4]),
      FlowKind("condition", "map", FlowConditions[5]),
      FlowKind("condition", "null", PyStr(<<>>))>>

FlowNodeList(s, k) ==
    [i \in 1..Len(s) |-> [id |-> IdName[s[i]], type |-> k[i].type,
                          parameters |-> k[i].parameters,
                          condition |-> k[i].condition]]

\* Connection lists of the runs without faults: none, the chain in declaration
\* order, the chain against it, and a dangling target beside a self-loop
FlowConnections(nodes) ==
    LET ids == NodeIds(nodes)
        n == Len(ids)
    IN  IF n = 0 THEN {<<>>}
        ELSE {<<>>,
              [i \in 1..(n - 1) |-> Conn(ids[i], ids[i + 1])],
              [i \in 1..(n - 1) |-> Conn(ids[n + 1 - i], ids[n - i])],
              <<Conn(ids[1], GhostId), Conn(ids[n], ids[n])>>}

IsFlowDefinition(d) ==
    \E n \in 0..MaxRunNodes : \E s \in IdPatterns(n) :
        \E f \in [1..n -> 1..Len(FlowKinds)] :
            LET ns == FlowNodeList(s, [i \in 1..n |-> FlowKinds[f[i]]])
            IN  \E cs \in FlowConnections(ns) :
                    d = [nodes |-> ns, connections |-> cs]

-----------------------------------------------------------------------------
(* Node dispatcher: execute_node and the handlers *)

\* context.get("data", {})
ContextData(w) == IF w.has_data THEN w.data ELSE EmptyDict

\* execute_start_node
execute_start_node(w) == [status |-> "started", data |-> InputData]

\* execute_end_node
execute_end_node(w) == [status |-> "completed", final_data |-> ContextData(w)]

\* What the HTTP call of an http_request node meets: an answer, an exception of
\* requests.request (no connection, timeout), or an answer announced as
\* application/json whose body response.json() cannot parse
NetOutcomes == {"ok", "err", "bad_json"}

\* str(e) of the exception caught at line 151
HttpErrorMessage(net) ==
    IF net = "err" THEN "request failed" ELSE "Expecting value"

HttpRequestErrorOnly(w, net) ==
    IF net = "ok"
    THEN [status_code |-> 200, data |-> [body |-> "text"], headers |-> EmptyDict]
    ELSE [error |-> HttpErrorMessage(net)]
\* execute_http_request_node, past parameters.get: the call answered (net = "ok")
\* or the try block raised and the handler returned the error payload
execute_http_request_node(w, net) ==
    IF net = "ok"
    THEN [status_code |-> 200, data |-> [body |-> "text"], headers |-> EmptyDict]
    ELSE [error |-> HttpErrorMessage(net), status_code |-> 0]

\* execute_generic_node
execute_generic_node(w) == ContextData(w)

\* The handlers that read node["parameters"] call parameters.get(...) outside
\* any try: with "parameters": null that raises AttributeError.
HandlerRaises(node) ==
    /\ node.type \in {"http_request", "data_transform", "condition"}
    /\ node.parameters = "null"

K_input_data == <<"i", "n", "p", "u", "t", "_", "d", "a", "t", "a">>
K_workflow_id == <<"w", "o", "r", "k", "f", "l", "o", "w", "_", "i", "d">>
K_execution_id == <<"e", "x", "e", "c", "u", "t", "i", "o", "n", "_", "i", "d">>

\* str(self.execution.id) of the executions "e1" and "e2"
ExecutionIdStr == IF eid = "e2" THEN <<"e", "2">> ELSE <<"e", "1">>

\* The context of a run as the template resolver reads it: input_data (the
\* InputData above), workflow_id "w1" and the execution_id. The templates of
\* the runs do not name the key data.
RunContext ==
    PyDict(<<<<K_input_data, PyDict(<<<<<<"f", "o", "o">>, PyInt(1)>>>>)>>,
             <<K_workflow_id, PyStr(<<"w", "1">>)>>,
             <<K_execution_id, PyStr(ExecutionIdStr)>>>>)

\* The value the handler of the node's type returns
HandlerResult(node, w, net) ==
    CASE node.type = "start" -> execute_start_node(w)
      [] node.type = "end" -> execute_end_node(w)
      [] node.type = "http_request" -> execute_http_request_node(w, net)
      [] node.type = "condition" -> execute_condition_node(node.condition, RunContext)
      [] OTHER -> execute_generic_node(w)

LogEntryOfFirstRun(level, message, node_id) ==
    [execution_id |-> "e1", level |-> level, message |-> message, node_id |-> node_id]
\* An execution_logs row: the executor's execution_id, level, message, and the
\* node_id of its metadata ("" when the metadata has none).
LogEntry(level, message, node_id) ==
    [execution_id |-> eid, level |-> level, message |-> message, node_id |-> node_id]

NodeInfoLogAnonymous(node) == LogEntry("info", "Executing node", "")
\* log_message(INFO, "Executing node: ...", {"node_id": node_id, "node_type": ...})
NodeInfoLog(node) == LogEntry("info", "Executing node", node.id)

NodeErrorLogNoId(node) == LogEntry("error", "Error executing node", "")
\* the except branch of execute_node: metadata {"node_id": node_id, "error", "traceback"}
NodeErrorLog(node) == LogEntry("error", "Error executing node", node.id)

\* str(e) of the exceptions a run meets
HandlerError == "'NoneType' object has no attribute 'get'"
LogWriteError == "log write failed"
StatusWriteError == "status write failed"
ProgressError == "progress update failed"
ReloadError == "row reload failed"

\* error_msg = f"Workflow execution failed: {str(e)}"
ErrorMsg(e) == "Workflow execution failed: " \o e

\* next((n for n in nodes if n["id"] == node_id), None): the index of the first
\* node with the id, 0 for None
Lookup(nodes, node_id) ==
    IF \E i \in 1..Len(nodes) : nodes[i].id = node_id
    THEN CHOOSE i \in 1..Len(nodes) :
            /\ nodes[i].id = node_id
            /\ \A j \in 1..(i - 1) : nodes[j].id # node_id
    ELSE 0

-----------------------------------------------------------------------------
(* Run state machine: execute_workflow and what it calls *)

Workers == 1..MaxDeliveries

Terminal == {"completed", "failed", "cancelled"}

\* A WorkflowExecutor before its task is delivered.
\*   pc         position in execute_workflow
\*   order, i   execution_order and the 1-based position of the for loop
\*   has_data, data   context["data"]
\*   out        the output_data accumulator
\*   seen       self.execution.status as the session holds it: the value it
\*              loaded, or "expired" after a commit or rollback of the session
\*   stamp      the value datetime.utcnow() returned to update_execution_status
\*   exc        str(e) of the exception being handled, "" for none
\*   ret        "status" of the dict execute_workflow_task returned, "none" before
\*   faults, raised, dispatched   history: the kinds of calls that raised, the id
\*              of the node whose handler raised, the node ids dispatched
\*   saw, results   history: for each node whose handler returned, the
\*              context["data"] it was called with and what its HTTP call met
\*              ([has, data, net]), and its result
\*   progress   history: the progress values handed to update_state
IdleWorker ==
    [pc |-> "idle", order |-> <<>>, i |-> 0, has_data |-> FALSE, data |-> EmptyDict,
     out |-> NewDict, seen |-> "expired", stamp |-> 0, exc |-> "", ret |-> "none", faults |-> {}, raised |-> "",
     dispatched |-> <<>>, saw |-> <<>>, results |-> <<>>, progress |-> <<>>]

\* Whether a commit or a progress update goes through (TRUE) or raises (FALSE)
CallOutcomes == IF mayFail THEN {TRUE, FALSE} ELSE {TRUE}

\* Whether a commit of the executor's session goes through or raises. With the
\* execution row deleted every commit raises: the UPDATE of the row matches no
\* row (StaleDataError), the INSERT of a log row violates its foreign key
DbOutcomes == IF present.execution THEN CallOutcomes ELSE {FALSE}

StoreVars == <<status, started_at, completed_at, error_message, output_data,
               statusHist, now>>

\* The columns of the execution row, and their history
RowVars == <<status, started_at, completed_at, error_message, output_data, statusHist>>

\* The UPDATE a flush issues holds the columns whose value differs from the one
\* the session loaded; an expired attribute that is set is always written.
StatusColumnWritten(seen, new_status) == seen = "expired" \/ seen # new_status

\* update_execution_status up to its commit: the attributes are set on the
\* session's object, the timestamp of the transition is read from the clock
ReadClock(w, pc) ==
    /\ wk' = [wk EXCEPT ![w].stamp = now + 1, ![w].pc = pc]
    /\ now' = now + 1
    /\ UNCHANGED RowVars

\* self.db.commit() of update_execution_status: the status, the timestamp read
\* before, the error message when one is given
UpdateExecutionStatus(seen, new_status, msg, stamp) ==
    /\ status' = IF StatusColumnWritten(seen, new_status) THEN new_status ELSE status
    /\ started_at' = IF new_status = "running" THEN stamp ELSE started_at
    /\ completed_at' = IF new_status \in Terminal THEN stamp ELSE completed_at
    /\ error_message' = IF msg # "" THEN msg ELSE error_message
    /\ statusHist' = IF StatusColumnWritten(seen, new_status)
                     THEN Append(statusHist, new_status) ELSE statusHist
    /\ now' = now

\* update_execution_status whose commit raised: nothing is stored
StatusWriteRaised == UNCHANGED StoreVars

\* An exception raised inside the try block of execute_workflow: on to except
ToExcept(me, e, fault) ==
    [me EXCEPT !.pc = "set_failed", !.exc = e, !.faults = @ \cup fault,
               !.seen = "expired"]

PropagateSwallowed(me, e, fault) ==
    [me EXCEPT !.pc = "done", !.exc = e, !.ret = "completed", !.faults = @ \cup fault,
               !.seen = "expired"]
\* An exception leaving execute_workflow: the task wrapper catches it and
\* returns {"status": "failed"}
Propagate(me, e, fault) ==
    [me EXCEPT !.pc = "done", !.exc = e, !.ret = "failed", !.faults = @ \cup fault,
               !.seen = "expired"]

\* Where the for loop stands with position i
LoopPc(order, i) == IF i > Len(order) THEN "set_completed" ELSE "nodes"

\* The task queue hands the execution id to a worker: execute_workflow_task
\* builds a WorkflowExecutor with a session of its own.
Deliver(w) ==
    /\ queue > 0
    /\ wk[w].pc = "idle"
    /\ \A v \in Workers : v < w => wk[v].pc # "idle"
    /\ queue' = queue - 1
    /\ wk' = [wk EXCEPT ![w].pc = "load"]
    /\ UNCHANGED <<eid, peer, ws, present, api, call, definition, schedule, logs, cancelled, mayFail>>
    /\ UNCHANGED StoreVars

NotFoundNever(p, row) == ""
\* load_execution: str(e) of the ValueError it raises when the query for the
\* row, "execution" or "workflow", returns None; "" when the row exists
NotFound(p, row) ==
    IF p[row] THEN ""
    ELSE IF row = "execution" THEN "Execution not found"
    ELSE "Workflow not found"

\* self.load_execution(), the first statement of execute_workflow, outside the
\* try block, up to its second query: the query for the execution and the
\* ValueError when it returns None, which leaves execute_workflow at once
LoadExecution(w) ==
    /\ wk[w].pc = "load"
    /\ wk' = IF NotFound(present, "execution") # ""
             THEN [wk EXCEPT ![w] = Propagate(@, NotFound(present, "execution"),
                                              {"lookup"})]
             ELSE [wk EXCEPT ![w].pc = "load_wf", ![w].seen = status]
    /\ UNCHANGED <<eid, peer, ws, present, api, call, definition, schedule, queue, logs, cancelled, mayFail>>
    /\ UNCHANGED StoreVars

\* load_execution from its second query: the query for the workflow of the
\* execution and the ValueError when it returns None
LoadWorkflow(w) ==
    /\ wk[w].pc = "load_wf"
    /\ wk' = IF NotFound(present, "workflow") # ""
             THEN [wk EXCEPT ![w] = Propagate(@, NotFound(present, "workflow"),
                                              {"lookup"})]
             ELSE [wk EXCEPT ![w].pc = "set_running"]
    /\ UNCHANGED <<eid, peer, ws, present, api, call, definition, schedule, queue, logs, cancelled, mayFail>>
    /\ UNCHANGED StoreVars

\* self.update_execution_status(ExecutionStatus.RUNNING), before the try block,
\* up to its commit
SetRunning(w) ==
    /\ wk[w].pc = "set_running"
    /\ ReadClock(w, "commit_running")
    /\ UNCHANGED <<eid, peer, ws, present, api, call, definition, schedule, queue, logs, cancelled, mayFail>>

\* The commit of update_execution_status(ExecutionStatus.RUNNING)
CommitRunning(w) ==
    /\ wk[w].pc = "commit_running"
    /\ \E ok \in DbOutcomes :
          IF ok
          THEN /\ UpdateExecutionStatus(wk[w].seen, "running", "", wk[w].stamp)
               /\ UNCHANGED output_data
               /\ wk' = [wk EXCEPT ![w].pc = "log_start", ![w].seen = "expired"]
          ELSE /\ StatusWriteRaised
               /\ wk' = [wk EXCEPT ![w] = Propagate(@, StatusWriteError, {"status"})]
    /\ UNCHANGED <<eid, peer, ws, present, api, call, definition, schedule, queue, logs, cancelled, mayFail>>

\* self.log_message(INFO, "Starting workflow execution"), before the try block
LogStart(w) ==
    /\ wk[w].pc = "log_start"
    /\ \E ok \in DbOutcomes :
          IF ok
          THEN /\ logs' = Append(logs, LogEntry("info", "Starting workflow execution", ""))
               /\ wk' = [wk EXCEPT ![w].pc = "definition", ![w].seen = "expired"]
          ELSE /\ UNCHANGED logs
               /\ wk' = [wk EXCEPT ![w] = Propagate(@, LogWriteError, {"log"})]
    /\ UNCHANGED <<eid, peer, ws, present, api, call, definition, schedule, queue, cancelled, mayFail>>
    /\ UNCHANGED StoreVars

\* The try block up to the execution order: self.workflow.definition reloads
\* the workflow row, which the commit expired, and raises ObjectDeletedError
\* when the row is gone; build_execution_order
ReadDefinition(w) ==
    /\ wk[w].pc = "definition"
    /\ wk' = IF ~present.workflow
             THEN [wk EXCEPT ![w] = ToExcept(@, ReloadError, {"reload"})]
             ELSE [wk EXCEPT ![w].order = build_execution_order(definition.nodes,
                                                                definition.connections),
                             ![w].pc = "context"]
    /\ UNCHANGED <<eid, peer, ws, present, api, call, definition, schedule, queue, logs, cancelled, mayFail>>
    /\ UNCHANGED StoreVars

\* The context, an empty accumulator and the start of the for loop: reading
\* self.execution.input_data reloads the execution row, which the commit
\* expired, with the status stored at that moment, and raises
\* ObjectDeletedError when the row is gone
BuildContext(w) ==
    /\ wk[w].pc = "context"
    /\ wk' = IF ~present.execution
             THEN [wk EXCEPT ![w] = ToExcept(@, ReloadError, {"reload"})]
             ELSE [wk EXCEPT ![w].i = 1, ![w].pc = LoopPc(wk[w].order, 1),
                             ![w].seen = status]
    /\ UNCHANGED <<eid, peer, ws, present, api, call, definition, schedule, queue, logs, cancelled, mayFail>>
    /\ UNCHANGED StoreVars

KeepContextData(me, result) == me
\* context["data"] = result
SetContextData(me, result) == [me EXCEPT !.has_data = TRUE, !.data = result]

\* progress = (execution_order.index(node_id) + 1) / len(execution_order) * 100,
\* kept as the fraction num / den of 100
Progress(order, node_id) == [num |-> Pos(order, node_id), den |-> Len(order)]

\* What the HTTP call of the node met; "none" for a node that makes no call
NetOf(node, net) == IF node.type = "http_request" THEN net ELSE "none"

\* The node the for loop of worker w is at
CurrentNode(w) == definition.nodes[Lookup(definition.nodes, wk[w].order[wk[w].i])]

NodeStepBranching(w) ==
    /\ wk[w].pc = "nodes"
    /\ LET me == wk[w]
           k == Lookup(definition.nodes, me.order[me.i])
           last == IF me.dispatched = <<>> THEN 0
                   ELSE Lookup(definition.nodes, me.dispatched[Len(me.dispatched)])
           skip == /\ last # 0
                   /\ definition.nodes[last].type = "condition"
                   /\ ~me.results[Len(me.results)].v[1][2].v
       IN  IF k = 0 \/ skip
           THEN /\ wk' = [wk EXCEPT ![w].i = me.i + 1,
                                    ![w].pc = LoopPc(me.order, me.i + 1)]
                /\ UNCHANGED logs
           ELSE \E ok \in DbOutcomes :
                   IF ok
                   THEN /\ logs' = Append(logs, NodeInfoLog(definition.nodes[k]))
                        /\ wk' = [wk EXCEPT ![w].pc = "handler", ![w].seen = "expired",
                                            ![w].dispatched = Append(@, me.order[me.i])]
                   ELSE /\ UNCHANGED logs
                        /\ wk' = [wk EXCEPT ![w] = ToExcept(me, LogWriteError, {"log"})]
    /\ UNCHANGED <<eid, peer, ws, present, api, call, definition, schedule, queue, cancelled, mayFail>>
    /\ UNCHANGED StoreVars

\* "for node_id in execution_order": the lookup of the node, and for a node
\* that has the id the call of execute_node up to the commit of its first
\* log_message
NodeStep(w) ==
    /\ wk[w].pc = "nodes"
    /\ LET me == wk[w]
           k == Lookup(definition.nodes, me.order[me.i])
       IN  IF k = 0
           THEN /\ wk' = [wk EXCEPT ![w].i = me.i + 1,
                                    ![w].pc = LoopPc(me.order, me.i + 1)]
                /\ UNCHANGED logs
           ELSE \E ok \in DbOutcomes :
                   IF ok
                   THEN /\ logs' = Append(logs, NodeInfoLog(definition.nodes[k]))
                        /\ wk' = [wk EXCEPT ![w].pc = "handler", ![w].seen = "expired",
                                            ![w].dispatched = Append(@, me.order[me.i])]
                   ELSE /\ UNCHANGED logs
                        /\ wk' = [wk EXCEPT ![w] = ToExcept(me, LogWriteError, {"log"})]
    /\ UNCHANGED <<eid, peer, ws, present, api, call, definition, schedule, queue, cancelled, mayFail>>
    /\ UNCHANGED StoreVars

\* execute_node, the try block: the handler of the node's type runs, an
\* http_request handler waiting in requests.request; when it returns, the loop
\* body stores the result in the context and in the accumulator
ExecuteNode(w) ==
    /\ wk[w].pc = "handler"
    /\ LET me == wk[w]
           node == CurrentNode(w)
       IN  IF HandlerRaises(node)
           THEN wk' = [wk EXCEPT ![w] = [me EXCEPT !.raised = node.id,
                                                   !.pc = "node_error"]]
           ELSE \E net \in NetOutcomes :
                   LET result == HandlerResult(node, me, net)
                   IN  wk' = [wk EXCEPT ![w] =
                                 [SetContextData(me, result) EXCEPT
                                     !.pc = "progress",
                                     !.out = DictSet(@, node.id, result),
                                     !.saw = Append(@, [has |-> me.has_data,
                                                        data |-> ContextData(me),
                                                        net |-> NetOf(node, net)]),
                                     !.results = Append(@, result)]]
    /\ UNCHANGED <<eid, peer, ws, present, api, call, definition, schedule, queue, logs, cancelled, mayFail>>
    /\ UNCHANGED StoreVars

\* execute_node, the except block: self.log_message(ERROR, ...); raise
LogNodeError(w) ==
    /\ wk[w].pc = "node_error"
    /\ \E ok \in DbOutcomes :
          IF ok
          THEN /\ logs' = Append(logs, NodeErrorLog(CurrentNode(w)))
               /\ wk' = [wk EXCEPT ![w] = ToExcept(@, HandlerError, {})]
          ELSE /\ UNCHANGED logs
               /\ wk' = [wk EXCEPT ![w] = ToExcept(@, LogWriteError, {"log"})]
    /\ UNCHANGED <<eid, peer, ws, present, api, call, definition, schedule, queue, cancelled, mayFail>>
    /\ UNCHANGED StoreVars

\* current_task.update_state(state="PROGRESS", ...), the end of the loop body
UpdateProgress(w) ==
    /\ wk[w].pc = "progress"
    /\ LET me == wk[w]
       IN  \E ok \in CallOutcomes :
              IF ok
              THEN wk' = [wk EXCEPT ![w] =
                             [me EXCEPT !.i = me.i + 1,
                                        !.pc = LoopPc(me.order, me.i + 1),
                                        !.progress =
                                           Append(@, Progress(me.order, me.order[me.i]))]]
              ELSE wk' = [wk EXCEPT ![w] = ToExcept(me, ProgressError, {"progress"})]
    /\ UNCHANGED <<eid, peer, ws, present, api, call, definition, schedule, queue, logs, cancelled, mayFail>>
    /\ UNCHANGED StoreVars

\* self.execution.output_data = output_data;
\* self.update_execution_status(ExecutionStatus.COMPLETED) up to its commit
SetCompleted(w) ==
    /\ wk[w].pc = "set_completed"
    /\ ReadClock(w, "commit_completed")
    /\ UNCHANGED <<eid, peer, ws, present, api, call, definition, schedule, queue, logs, cancelled, mayFail>>

\* The commit of update_execution_status(ExecutionStatus.COMPLETED), with the
\* output_data set before
CommitCompleted(w) ==
    /\ wk[w].pc = "commit_completed"
    /\ \E ok \in DbOutcomes :
          IF ok
          THEN /\ output_data' = [present |-> TRUE, dict |-> wk[w].out]
               /\ UpdateExecutionStatus(wk[w].seen, "completed", "", wk[w].stamp)
               /\ wk' = [wk EXCEPT ![w].pc = "log_completed", ![w].seen = "expired"]
          ELSE /\ StatusWriteRaised
               /\ wk' = [wk EXCEPT ![w] = ToExcept(@, StatusWriteError, {"status"})]
    /\ UNCHANGED <<eid, peer, ws, present, api, call, definition, schedule, queue, logs, cancelled, mayFail>>

\* self.log_message(INFO, "Workflow execution completed successfully");
\* return output_data
LogCompleted(w) ==
    /\ wk[w].pc = "log_completed"
    /\ \E ok \in DbOutcomes :
          IF ok
          THEN /\ logs' = Append(logs, LogEntry("info", "Workflow execution completed successfully", ""))
               /\ wk' = [wk EXCEPT ![w].pc = "done", ![w].ret = "completed",
                                   ![w].seen = "expired"]
          ELSE /\ UNCHANGED logs
               /\ wk' = [wk EXCEPT ![w] = ToExcept(@, LogWriteError, {"log"})]
    /\ UNCHANGED <<eid, peer, ws, present, api, call, definition, schedule, queue, cancelled, mayFail>>
    /\ UNCHANGED StoreVars

\* except Exception as e: self.update_execution_status(FAILED, error_msg) up to
\* its commit
SetFailed(w) ==
    /\ wk[w].pc = "set_failed"
    /\ ReadClock(w, "commit_failed")
    /\ UNCHANGED <<eid, peer, ws, present, api, call, definition, schedule, queue, logs, cancelled, mayFail>>

\* The commit of update_execution_status(FAILED, error_msg)
CommitFailed(w) ==
    /\ wk[w].pc = "commit_failed"
    /\ \E ok \in DbOutcomes :
          IF ok
          THEN /\ UpdateExecutionStatus(wk[w].seen, "failed", ErrorMsg(wk[w].exc),
                                        wk[w].stamp)
               /\ UNCHANGED output_data
               /\ wk' = [wk EXCEPT ![w].pc = "log_failed", ![w].seen = "expired"]
          ELSE /\ StatusWriteRaised
               /\ wk' = [wk EXCEPT ![w] = Propagate(@, StatusWriteError, {"status"})]
    /\ UNCHANGED <<eid, peer, ws, present, api, call, definition, schedule, queue, logs, cancelled, mayFail>>

\* self.log_message(ERROR, error_msg, {"traceback": ...}); raise
LogFailed(w) ==
    /\ wk[w].pc = "log_failed"
    /\ \E ok \in DbOutcomes :
          IF ok
          THEN /\ logs' = Append(logs, LogEntry("error", ErrorMsg(wk[w].exc), ""))
               /\ wk' = [wk EXCEPT ![w] = Propagate(@, @.exc, {})]
          ELSE /\ UNCHANGED logs
               /\ wk' = [wk EXCEPT ![w] = Propagate(@, LogWriteError, {"log"})]
    /\ UNCHANGED <<eid, peer, ws, present, api, call, definition, schedule, queue, cancelled, mayFail>>
    /\ UNCHANGED StoreVars

\* An actor outside the engine sets the stored status of the running run to
\* cancelled (the engine has no such step).
Cancel ==
    /\ status = "running"
    /\ ~cancelled
    /\ status' = "cancelled"
    /\ statusHist' = Append(statusHist, "cancelled")
    /\ cancelled' = TRUE
    /\ UNCHANGED <<eid, peer, ws, present, api, call, definition, schedule, queue, wk, started_at, completed_at,
                   error_message, output_data, logs, now, mayFail>>

\* DELETE /workflows/{id} (api/v1/workflows.py delete_workflow) of the workflow
\* of the run, committed by another session: the workflow row is deleted and
\* with it, by the foreign keys ON DELETE CASCADE, the execution row and its
\* execution_logs rows. The variables of the columns keep the values the
\* execution row held.
DeleteWorkflow ==
    /\ present.workflow
    /\ present' = [execution |-> FALSE, workflow |-> FALSE]
    /\ logs' = <<>>
    /\ UNCHANGED <<eid, peer, ws, api, call, definition, schedule, queue, wk,
                   cancelled, mayFail>>
    /\ UNCHANGED StoreVars

\* SpecOrder: build_execution_order applied to the drawn nodes and connections
ComputeOrder ==
    /\ ~schedule.done
    /\ schedule' = [done |-> TRUE,
                    order |-> build_execution_order(definition.nodes,
                                                    definition.connections)]
    /\ UNCHANGED <<eid, peer, ws, present, api, call, definition, queue, wk, logs, cancelled, mayFail>>
    /\ UNCHANGED StoreVars

-----------------------------------------------------------------------------
(* REST endpoints of workflows and executions, and WorkflowService *)

\* A JSON object posted as "definition": its shape, and its nodes and
\* connections when "nodes" is a list
ApiDefinition(shape, nodes, connections) ==
    [shape |-> shape, nodes |-> nodes, connections |-> connections]

GenericNode(id) == [id |-> id, type |-> "generic", parameters |-> "map"]

\* The definitions the requests carry: {} (no "nodes"), {"nodes": {}} (not a
\* list), and node lists with a connection to an id no node declares and with
\* a connection between declared nodes
ApiDefinitions ==
    {ApiDefinition("no_nodes", <<>>, <<>>),
     ApiDefinition("nodes_not_list", <<>>, <<>>),
     ApiDefinition("nodes_list", <<GenericNode("a")>>, <<Conn("a", GhostId)>>),
     ApiDefinition("nodes_list", <<GenericNode("a"), GenericNode("b")>>,
                   <<Conn("a", "b")>>)}

\* WorkflowStatus
WorkflowStatuses == {"draft", "active", "inactive", "archived"}

\* WorkflowService.validate_workflow_definition: "True", or the message of the
\* ValueError it raises
validate_workflow_definition(d) ==
    IF d.shape = "not_dict" THEN "Workflow definition must be a dictionary"
    ELSE IF d.shape = "no_nodes" THEN "Workflow definition must contain 'nodes'"
    ELSE IF d.shape = "nodes_not_list" THEN "Workflow 'nodes' must be a list"
    ELSE "True"

\* The names the module workflow_service binds: its imports and its class.
\* WorkflowStatus, HTTPException and status are used by the service but are
\* not among them, so evaluating one of them raises NameError.
ServiceGlobals ==
    {"List", "Dict", "Any", "Optional", "Session", "and_", "or_", "func",
     "Workflow", "Execution", "ExecutionStatus", "User", "WorkflowCreate",
     "WorkflowUpdate", "datetime", "timedelta", "uuid", "json", "WorkflowService"}

\* The Python type of each attribute of a Workflow row that was refreshed
\* (the columns id and user_id are UUID(as_uuid=True))
WorkflowAttributes ==
    [name |-> "str", description |-> "NoneType", definition |-> "dict",
     id |-> "UUID", user_id |-> "UUID", status |-> "WorkflowStatus",
     created_at |-> "datetime", updated_at |-> "datetime"]

\* WorkflowResponse: the types each field of the response model takes
WorkflowResponse ==
    [name |-> {"str"}, description |-> {"str", "NoneType"},
     definition |-> {"dict"}, id |-> {"str"}, user_id |-> {"str"},
     status |-> {"WorkflowStatus"}, created_at |-> {"datetime"},
     updated_at |-> {"datetime"}]

\* The answer to a request: the endpoint or service method, the HTTP status
\* code (0 for a call of the service outside an endpoint) and the name of the
\* exception that left the handler ("" when it returned)
Answer(op, code, exc) == [op |-> op, code |-> code, exc |-> exc]

\* response_model=WorkflowResponse: the row the endpoint returned is validated
\* against the response model, and a field that does not take the attribute's
\* type makes the request fail after the endpoint has returned
Responded(op) ==
    IF \A f \in DOMAIN WorkflowResponse : WorkflowAttributes[f] \in WorkflowResponse[f]
    THEN Answer(op, 200, "")
    ELSE Answer(op, 500, "ResponseValidationError")

\* The ids of the workflow rows, in the order the rows are inserted
WorkflowKeys == 1..MaxWorkflows

\* The request handlers that run at a time, each with a session of its own
Requests == 1..MaxRequests

\* A workflow row that was not inserted yet
NoRow ==
    [state |-> "unborn", definition |-> ApiDefinition("no_nodes", <<>>, <<>>),
     status |-> "draft"]

\* A handler that handles no request. Of one that does: the endpoint or method
\* (op), the statement it is to run next (pc), the id of its workflow (wf) and
\* the attributes its session holds as changed (setDef with d, setStatus with
\* st, touched for name, description and updated_at)
IdleRequest ==
    [op |-> "none", pc |-> "idle", wf |-> 0, run |-> 0, setDef |-> FALSE,
     d |-> ApiDefinition("no_nodes", <<>>, <<>>), setStatus |-> FALSE,
     st |-> "draft", touched |-> FALSE]

\* Before any request: no workflow is stored and no run was created; last is
\* the answer to the request that was answered last
NoApi ==
    [rows |-> [k \in WorkflowKeys |-> NoRow],
     reqs |-> [r \in Requests |-> IdleRequest],
     runs |-> <<>>,
     last |-> Answer("none", 0, "")]

EngineVars == <<definition, schedule, queue, wk, status, started_at, completed_at,
                error_message, output_data, logs, now, statusHist, cancelled,
                mayFail, present, call, eid, peer, ws>>

\* db.query(Workflow).filter(Workflow.id == workflow_id, ...).first() finds
\* the row
Found(a, k) == a.rows[k].state = "stored"

\* setattr on a loaded row: the session holds the attribute as changed when
\* the new value differs from the loaded one
Changed(set, new, loaded) == set /\ new # loaded

\* The handler r has answered
Answered(a, r, answer) == [a EXCEPT !.reqs[r] = IdleRequest, !.last = answer]

\* db.refresh(row) and the return of the row: the row is selected again, and
\* InvalidRequestError is raised when it is gone
Refreshed(a, r, answer) ==
    Answered(a, r, IF Found(a, a.reqs[r].wf) THEN answer
                   ELSE Answer(a.reqs[r].op, IF answer.code = 0 THEN 0 ELSE 500,
                               "InvalidRequestError"))

\* db.commit() of a row the session holds as changed: UPDATE ... WHERE id of
\* the changed columns; StaleDataError when the statement matches no row; no
\* statement when nothing is held as changed
Committed(a, r) ==
    LET q == a.reqs[r]
    IN  IF ~(q.setDef \/ q.setStatus \/ q.touched)
        THEN [a EXCEPT !.reqs[r].pc = "refresh"]
        ELSE IF ~Found(a, q.wf)
        THEN Answered(a, r, Answer(q.op, IF q.op = "update" THEN 500 ELSE 0,
                                   "StaleDataError"))
        ELSE [a EXCEPT !.rows[q.wf].definition = IF q.setDef THEN q.d ELSE @,
                       !.rows[q.wf].status = IF q.setStatus THEN q.st ELSE @,
                       !.reqs[r] = [IdleRequest EXCEPT !.op = q.op,
                                                       !.pc = "refresh",
                                                       !.wf = q.wf]]

\* POST /workflows/ (api/v1/workflows.py create_workflow) up to db.commit():
\* the definition is inserted as posted, the status takes the column default.
\* The row takes the next id of WorkflowKeys; MaxWorkflows rows are inserted.
ApiCreateWorkflow(r, d) ==
    /\ api.reqs[r].pc = "idle"
    /\ \E k \in WorkflowKeys :
          /\ api.rows[k].state = "unborn"
          /\ \A j \in 1..(k - 1) : api.rows[j].state # "unborn"
          /\ api' = [api EXCEPT
                       !.rows[k] = [state |-> "stored", definition |-> d,
                                    status |-> "draft"],
                       !.reqs[r] = [IdleRequest EXCEPT !.op = "create",
                                                       !.pc = "refresh",
                                                       !.wf = k]]
    /\ UNCHANGED EngineVars

\* PUT /workflows/{id} (update_workflow) up to db.commit(): the row is
\* selected, and every field the request sets is assigned with setattr, the
\* definition and the status included; other says that the request sets the
\* name or the description to a new value
ApiUpdateWorkflow(r, k, setDef, d, setStatus, st, other) ==
    /\ api.reqs[r].pc = "idle"
    /\ IF ~Found(api, k)
       THEN api' = Answered(api, r, Answer("update", 404, "HTTPException"))
       ELSE LET cd == Changed(setDef, d, api.rows[k].definition)
                cs == Changed(setStatus, st, api.rows[k].status)
            IN  api' = [api EXCEPT
                          !.reqs[r] = [IdleRequest EXCEPT
                                         !.op = "update", !.pc = "commit",
                                         !.wf = k, !.setDef = cd,
                                         !.d = IF cd THEN d ELSE @,
                                         !.setStatus = cs,
                                         !.st = IF cs THEN st ELSE @,
                                         !.touched = other]]
    /\ UNCHANGED EngineVars

\* DELETE /workflows/{id} (delete_workflow) up to db.delete(workflow): the row
\* is selected
ApiDeleteWorkflow(r, k) ==
    /\ api.reqs[r].pc = "idle"
    /\ IF ~Found(api, k)
       THEN api' = Answered(api, r, Answer("delete", 404, "HTTPException"))
       ELSE api' = [api EXCEPT !.reqs[r] = [IdleRequest EXCEPT !.op = "delete",
                                                               !.pc = "commit",
                                                               !.wf = k]]
    /\ UNCHANGED EngineVars

\* POST /executions/{id}/activate -> WorkflowService.activate_workflow: not
\* found raises (through the unbound HTTPException); a found workflow is
\* validated, and "workflow.status = WorkflowStatus.ACTIVE" raises NameError
\* before anything is assigned or committed
ApiActivateWorkflow(r, k) ==
    /\ api.reqs[r].pc = "idle"
    /\ IF ~Found(api, k)
       THEN api' = Answered(api, r,
                      IF "HTTPException" \notin ServiceGlobals
                      THEN Answer("activate", 500, "NameError")
                      ELSE Answer("activate", 404, "HTTPException"))
       ELSE IF validate_workflow_definition(api.rows[k].definition) # "True"
       THEN api' = Answered(api, r, Answer("activate", 500, "ValueError"))
       ELSE IF "WorkflowStatus" \notin ServiceGlobals
       THEN api' = Answered(api, r, Answer("activate", 500, "NameError"))
       ELSE api' = [Answered(api, r, Answer("activate", 200, ""))
                      EXCEPT !.rows[k].status = "active"]
    /\ UNCHANGED EngineVars

\* POST /executions/{id}/deactivate -> WorkflowService.deactivate_workflow: not
\* found raises through the unbound HTTPException, and for a found workflow
\* "workflow.status = WorkflowStatus.INACTIVE" raises NameError before anything
\* is assigned or committed
ApiDeactivateWorkflow(r, k) ==
    /\ api.reqs[r].pc = "idle"
    /\ IF ~Found(api, k)
       THEN api' = Answered(api, r,
                      IF "HTTPException" \notin ServiceGlobals
                      THEN Answer("deactivate", 500, "NameError")
                      ELSE Answer("deactivate", 404, "HTTPException"))
       ELSE IF "WorkflowStatus" \notin ServiceGlobals
       THEN api' = Answered(api, r, Answer("deactivate", 500, "NameError"))
       ELSE api' = [Answered(api, r, Answer("deactivate", 200, ""))
                      EXCEPT !.rows[k].status = "inactive"]
    /\ UNCHANGED EngineVars

\* WorkflowService.can_execute_workflow: False when the workflow is not found;
\* otherwise "workflow.status == WorkflowStatus.ACTIVE"
can_execute_workflow(a, k) ==
    IF ~Found(a, k) THEN "False"
    ELSE IF "WorkflowStatus" \notin ServiceGlobals THEN "NameError"
    ELSE IF a.rows[k].status = "active" THEN "True" ELSE "False"

\* The Python type of each attribute of an Execution row that was reloaded
\* (the columns id and workflow_id are UUID(as_uuid=True), created_at has a
\* server default)
ExecutionAttributes ==
    [id |-> "UUID", workflow_id |-> "UUID", status |-> "ExecutionStatus",
     input_data |-> "dict", output_data |-> "NoneType",
     error_message |-> "NoneType", created_at |-> "datetime",
     started_at |-> "NoneType", completed_at |-> "NoneType"]

\* ExecutionResponse: the types each field of the response model takes (the
\* members of ExecutionStatus are instances of str)
ExecutionResponse ==
    [id |-> {"str"}, workflow_id |-> {"str"}, status |-> {"str", "ExecutionStatus"},
     input_data |-> {"dict"}, output_data |-> {"dict", "NoneType"},
     error_message |-> {"str", "NoneType"}, created_at |-> {"str"},
     started_at |-> {"str", "NoneType"}, completed_at |-> {"str", "NoneType"}]

\* execute_workflow after can_execute_workflow returned True: the handler goes
\* on to db.add(execution) and db.commit()
ExecuteBegun(a, r, k) ==
    [a EXCEPT !.reqs[r] = [IdleRequest EXCEPT !.op = "execute", !.pc = "commit",
                                              !.wf = k]]

ApiExecuteWorkflowUngated(r, k) ==
    /\ api.reqs[r].pc = "idle"
    /\ IF ~Found(api, k)
       THEN api' = Answered(api, r, Answer("execute", 400, "HTTPException"))
       ELSE api' = ExecuteBegun(api, r, k)
    /\ UNCHANGED EngineVars

\* POST /executions/{id}/execute (execute_workflow) up to db.add(execution):
\* 400 unless can_execute_workflow returns True, an unhandled exception
\* answers 500
ApiExecuteWorkflow(r, k) ==
    /\ api.reqs[r].pc = "idle"
    /\ LET c == can_execute_workflow(api, k)
       IN  IF c = "NameError"
           THEN api' = Answered(api, r, Answer("execute", 500, "NameError"))
           ELSE IF c = "False"
           THEN api' = Answered(api, r, Answer("execute", 400, "HTTPException"))
           ELSE api' = ExecuteBegun(api, r, k)
    /\ UNCHANGED EngineVars

\* WorkflowService.create_workflow, which no endpoint calls: the definition is
\* validated; a workflow of the same user and name (every request here carries
\* the same) raises through the unbound HTTPException, and
\* "status=WorkflowStatus.DRAFT" raises NameError before the workflow is added
ServiceCreateWorkflow(r, d) ==
    /\ api.reqs[r].pc = "idle"
    /\ IF validate_workflow_definition(d) # "True"
       THEN api' = Answered(api, r, Answer("service_create", 0, "ValueError"))
       ELSE IF \E k \in WorkflowKeys : Found(api, k)
       THEN api' = Answered(api, r,
                      IF "HTTPException" \notin ServiceGlobals
                      THEN Answer("service_create", 0, "NameError")
                      ELSE Answer("service_create", 0, "HTTPException"))
       ELSE api' = Answered(api, r,
                      IF "WorkflowStatus" \notin ServiceGlobals
                      THEN Answer("service_create", 0, "NameError")
                      ELSE Answer("service_create", 0, ""))
    /\ UNCHANGED EngineVars

\* WorkflowService.update_workflow(workflow_id, user_id, **updates), which no
\* endpoint calls, up to db.commit(): not found raises through the unbound
\* HTTPException; a definition among the updates is validated, then every
\* update is assigned with setattr, and updated_at is assigned
ServiceUpdateWorkflow(r, k, setDef, d, setStatus, st) ==
    /\ api.reqs[r].pc = "idle"
    /\ IF ~Found(api, k)
       THEN api' = Answered(api, r,
                      IF "HTTPException" \notin ServiceGlobals
                      THEN Answer("service_update", 0, "NameError")
                      ELSE Answer("service_update", 0, "HTTPException"))
       ELSE LET cd == Changed(setDef, d, api.rows[k].definition)
                cs == Changed(setStatus, st, api.rows[k].status)
            IN  IF setDef /\ validate_workflow_definition(d) # "True"
                THEN api' = Answered(api, r, Answer("service_update", 0, "ValueError"))
                ELSE api' = [api EXCEPT
                               !.reqs[r] = [IdleRequest EXCEPT
                                              !.op = "service_update",
                                              !.pc = "commit", !.wf = k,
                                              !.setDef = cd,
                                              !.d = IF cd THEN d ELSE @,
                                              !.setStatus = cs,
                                              !.st = IF cs THEN st ELSE @,
                                              !.touched = TRUE]]
    /\ UNCHANGED EngineVars

\* delete_workflow: db.delete(workflow), db.commit() and the return of the
\* message. The row is deleted, and with it the executions of the workflow
\* (cascade); a DELETE that matches no row is a warning of the session
DeleteCommitted(a, r) ==
    LET k == a.reqs[r].wf
    IN  [Answered(a, r, Answer("delete", 200, "")) EXCEPT
           !.rows[k].state = "deleted",
           !.rows[k].definition = NoRow.definition,
           !.rows[k].status = NoRow.status,
           !.runs = [i \in 1..Len(a.runs) |->
                        IF a.runs[i].workflow = k
                        THEN [a.runs[i] EXCEPT !.stored = FALSE]
                        ELSE a.runs[i]]]

\* The Execution row of the handler r is in the store
RunStored(a, r) == a.runs[a.reqs[r].run].stored

\* A 500 answer of the execute endpoint
ExecuteFailed(a, r, exc) == Answered(a, r, Answer("execute", 500, exc))

\* execute_workflow: db.add(execution); db.commit(). The INSERT violates the
\* foreign key when the workflow was deleted since it was selected
ExecuteInserted(a, r) ==
    LET k == a.reqs[r].wf
    IN  IF ~Found(a, k) THEN ExecuteFailed(a, r, "IntegrityError")
        ELSE [a EXCEPT !.runs = Append(@, [workflow |-> k, stored |-> TRUE,
                                           metadata |-> FALSE]),
                       !.reqs[r].run = Len(a.runs) + 1,
                       !.reqs[r].pc = "refresh"]

\* execute_workflow: db.refresh(execution)
ExecuteRefreshed(a, r) ==
    IF ~RunStored(a, r) THEN ExecuteFailed(a, r, "InvalidRequestError")
    ELSE [a EXCEPT !.reqs[r].pc = "delay"]

\* execute_workflow: execute_workflow_task.delay(str(execution.id)) and the
\* assignment of execution_metadata
ExecuteDelayed(a, r) == [a EXCEPT !.reqs[r].pc = "commit_metadata"]

\* execute_workflow: the second db.commit(), of execution_metadata
ExecuteCommitted(a, r) ==
    IF ~RunStored(a, r) THEN ExecuteFailed(a, r, "StaleDataError")
    ELSE [a EXCEPT !.runs[a.reqs[r].run].metadata = TRUE,
                   !.reqs[r].pc = "reload"]

\* execute_workflow: return execution. The row, expired by the commit, is
\* selected again when the response model reads it
ExecuteReturned(a, r) ==
    IF ~RunStored(a, r) THEN ExecuteFailed(a, r, "ObjectDeletedError")
    ELSE IF \A f \in DOMAIN ExecutionResponse :
               ExecutionAttributes[f] \in ExecutionResponse[f]
    THEN Answered(a, r, Answer("execute", 200, ""))
    ELSE ExecuteFailed(a, r, "ResponseValidationError")

\* The handler r, waiting on the database or on the broker, goes on to its next
\* round trip or to its answer
Resumed(a, r) ==
    LET q == a.reqs[r]
    IN  CASE q.op = "create" -> Refreshed(a, r, Responded("create"))
          [] q.op = "update" /\ q.pc = "commit" -> Committed(a, r)
          [] q.op = "update" /\ q.pc = "refresh" -> Refreshed(a, r, Responded("update"))
          [] q.op = "delete" -> DeleteCommitted(a, r)
          [] q.op = "service_update" /\ q.pc = "commit" -> Committed(a, r)
          [] q.op = "service_update" /\ q.pc = "refresh" ->
                Refreshed(a, r, Answer("service_update", 0, ""))
          [] q.op = "execute" /\ q.pc = "commit" -> ExecuteInserted(a, r)
          [] q.op = "execute" /\ q.pc = "refresh" -> ExecuteRefreshed(a, r)
          [] q.op = "execute" /\ q.pc = "delay" -> ExecuteDelayed(a, r)
          [] q.op = "execute" /\ q.pc = "commit_metadata" -> ExecuteCommitted(a, r)
          [] q.op = "execute" /\ q.pc = "reload" -> ExecuteReturned(a, r)

\* One round trip of a handler returns: the commit, the refresh or the reload
\* of the row it waited on, or the call of .delay, which puts the id of the
\* execution in the task queue
HandlerStep(r) ==
    /\ api.reqs[r].pc # "idle"
    /\ api' = Resumed(api, r)
    /\ queue' = IF api.reqs[r].op = "execute" /\ api.reqs[r].pc = "delay"
                THEN queue + 1 ELSE queue
    /\ UNCHANGED <<definition, schedule, wk, status, started_at, completed_at,
                   error_message, output_data, logs, now, statusHist, cancelled,
                   mayFail, present, call, eid, peer, ws>>

NextApi ==
    \/ \E r \in Requests, d \in ApiDefinitions : ApiCreateWorkflow(r, d)
    \/ \E r \in Requests, k \in WorkflowKeys, setDef \in BOOLEAN,
          d \in ApiDefinitions, setStatus \in BOOLEAN, st \in WorkflowStatuses,
          other \in BOOLEAN :
          ApiUpdateWorkflow(r, k, setDef, d, setStatus, st, other)
    \/ \E r \in Requests, k \in WorkflowKeys : ApiDeleteWorkflow(r, k)
    \/ \E r \in Requests, k \in WorkflowKeys : ApiActivateWorkflow(r, k)
    \/ \E r \in Requests, k \in WorkflowKeys : ApiDeactivateWorkflow(r, k)
    \/ \E r \in Requests, k \in WorkflowKeys : ApiExecuteWorkflow(r, k)
    \/ \E r \in Requests, d \in ApiDefinitions : ServiceCreateWorkflow(r, d)
    \/ \E r \in Requests, k \in WorkflowKeys, setDef \in BOOLEAN,
          d \in ApiDefinitions, setStatus \in BOOLEAN, st \in WorkflowStatuses :
          ServiceUpdateWorkflow(r, k, setDef, d, setStatus, st)
    \/ \E r \in Requests : HandlerStep(r)


-----------------------------------------------------------------------------
(* Calls of the template resolver, the condition node and json_extract *)

RECURSIVE Concat(_)
\* The concatenation of a sequence of strs
Concat(parts) == IF parts = <<>> THEN <<>> ELSE Head(parts) \o Concat(Tail(parts))

\* The pieces the condition expressions are built from: the operators the
\* evaluator looks for, operators without the spaces around them, operands
CondTokens ==
    <<OpEq, OpNe, OpGt, OpLt, <<"=", "=">>, <<">">>, <<"3">>, <<"2">>, <<"a">>,
      <<"b">>, <<"{", "{", "n", "}", "}">>, <<" ">>>>

\* "3 > 2", "a == b", "{{n}} > 1", "bogus > data", "2>3", "a==b", "2.5 > 2",
\* "3 < 2 > 1"
CondExamples ==
    <<<<"3", " ", ">", " ", "2">>,
      <<"a", " ", "=", "=", " ", "b">>,
      <<"{", "{", "n", "}", "}", " ", ">", " ", "1">>,
      <<"b", "o", "g", "u", "s", " ", ">", " ", "d", "a", "t", "a">>,
      <<"2", ">", "3">>,
      <<"a", "=", "=", "b">>,
      <<"2", ".", "5", " ", ">", " ", "2">>,
      <<"3", " ", "<", " ", "2", " ", ">", " ", "1">>>>

\* Condition parameters that are no str
CondOthers ==
    <<PyInt(5), PyNone, PyBool(TRUE), PyList(<<>>), PyList(<<PyStr(OpEq)>>),
      PyDict(<<>>), PyDict(<<<<OpGt, PyInt(1)>>>>)>>

\* Contexts of the condition calls: {} and {"n": 5}
CondContexts == <<PyDict(<<>>), PyDict(<<<<<<"n">>, PyInt(5)>>>>)>>

\* The pieces the templates are built from
TemplTokens ==
    <<<<"{", "{", "x", "}", "}">>, <<"{", "{", "y", "}", "}">>, <<"{">>, <<"}">>,
      <<"x">>, <<" ">>>>

\* Contexts of the resolver calls: {"x": "5"}, {}, {"x": 7, "y": None},
\* {"x": "{{y}}", "y": "1"}
TemplContexts ==
    <<PyDict(<<<<<<"x">>, PyStr(<<"5">>)>>>>),
      PyDict(<<>>),
      PyDict(<<<<<<"x">>, PyInt(7)>>, <<<<"y">>, PyNone>>>>),
      PyDict(<<<<<<"x">>, PyStr(<<"{", "{", "y", "}", "}">>)>>,
               <<<<"y">>, PyStr(<<"1">>)>>>>)>>

\* A template around the str s: s itself, the list [s, 1, [s]], the dict
\* {"k": s, s: None}
Wrapped(s, wrap) ==
    CASE wrap = "str" -> PyStr(s)
      [] wrap = "list" -> PyList(<<PyStr(s), PyInt(1), PyList(<<PyStr(s)>>)>>)
      [] wrap = "dict" -> PyDict(<<<<<<"k">>, PyStr(s)>>, <<s, PyNone>>>>)

K_a == <<"a">>
K_b == <<"b">>

\* Context data of the json_extract calls: {"a": {"b": 42}}, {"a": {}},
\* {"a": [7, {"b": 42}]}, {}, {"a": None}, [{"a": 1}], 3
ExtractData ==
    <<PyDict(<<<<K_a, PyDict(<<<<K_b, PyInt(42)>>>>)>>>>),
      PyDict(<<<<K_a, PyDict(<<>>)>>>>),
      PyDict(<<<<K_a, PyList(<<PyInt(7), PyDict(<<<<K_b, PyInt(42)>>>>)>>)>>>>),
      PyDict(<<>>),
      PyDict(<<<<K_a, PyNone>>>>),
      PyList(<<PyDict(<<<<K_a, PyInt(1)>>>>)>>),
      PyInt(3)>>

\* The segments of the dot-paths
PathSegments == <<<<"a">>, <<"b">>, <<"0">>, <<"1">>, <<>>>>

\* No call
NoCall == [fn |-> "none", a |-> PyNone, b |-> PyNone, done |-> TRUE, result |-> PyNone]

NewCall(fn, a, b) == [fn |-> fn, a |-> a, b |-> b, done |-> FALSE, result |-> PyNone]

\* The calls of execute_condition_node, replace_variables and json_extract
IsConditionCall(c) ==
    \E i \in 1..Len(CondContexts) : \E a \in {"tokens", "examples", "others"} :
        CASE a = "tokens" ->
                \E n \in 0..MaxTerms : \E f \in [1..n -> 1..Len(CondTokens)] :
                    c = NewCall("condition",
                                PyStr(Concat([k \in 1..n |-> CondTokens[f[k]]])),
                                CondContexts[i])
          [] a = "examples" ->
                \E k \in 1..Len(CondExamples) :
                    c = NewCall("condition", PyStr(CondExamples[k]), CondContexts[i])
          [] a = "others" ->
                \E k \in 1..Len(CondOthers) :
                    c = NewCall("condition", CondOthers[k], CondContexts[i])

IsTemplateCall(c) ==
    \E i \in 1..Len(TemplContexts) : \E n \in 0..MaxParts :
        \E f \in [1..n -> 1..Len(TemplTokens)] : \E wrap \in {"str", "list", "dict"} :
            c = NewCall("replace_variables",
                        Wrapped(Concat([k \in 1..n |-> TemplTokens[f[k]]]), wrap),
                        TemplContexts[i])

IsExtractCall(c) ==
    \E i \in 1..Len(ExtractData) : \E n \in 1..MaxSegs :
        \E f \in [1..n -> 1..Len(PathSegments)] :
            c = NewCall("json_extract", ExtractData[i],
                        PyStr(Join([k \in 1..n |-> PathSegments[f[k]]], <<".">>)))

\* The methods of the http_request nodes: none given, "GET", "post", "Patch"
HttpMethods ==
    <<<<>>, <<"G", "E", "T">>, <<"p", "o", "s", "t">>, <<"P", "a", "t", "c", "h">>>>

\* The parameters of an http_request node: the method when one is given, the
\* url "http://h/" + t, and on demand the headers {"X": t} and the data
\* {"k": t, "n": [t]}
HttpParameters(m, t, withHeaders, withData) ==
    PyDict((IF m = <<>> THEN <<>> ELSE <<<<K_method, PyStr(m)>>>>)
           \o <<<<K_url, PyStr(<<"h", "t", "t", "p", ":", "/", "/", "h", "/">> \o t)>>>>
           \o (IF withHeaders THEN <<<<K_headers, PyDict(<<<<<<"X">>, PyStr(t)>>>>)>>>> ELSE <<>>)
           \o (IF withData
               THEN <<<<K_data, PyDict(<<<<<<"k">>, PyStr(t)>>,
                                         <<<<"n">>, PyList(<<PyStr(t)>>)>>>>)>>>>
               ELSE <<>>))

\* The calls of execute_http_request_node
IsHttpCall(c) ==
    \E i \in 1..Len(TemplContexts) : \E m \in 1..Len(HttpMethods) :
        \E n \in 0..(MaxParts - 2) : \E f \in [1..n -> 1..Len(TemplTokens)] :
            \E withHeaders \in BOOLEAN, withData \in BOOLEAN :
                c = NewCall("http_request",
                            HttpParameters(HttpMethods[m],
                                           Concat([k \in 1..n |-> TemplTokens[f[k]]]),
                                           withHeaders, withData),
                            TemplContexts[i])

NonCallVars == <<definition, schedule, queue, wk, status, started_at, completed_at,
                 error_message, output_data, logs, now, statusHist, cancelled,
                 mayFail, present, api, eid, peer, ws>>

\* execute_condition_node on a node whose parameters hold the condition call.a,
\* with the context call.b
CallConditionNode ==
    /\ call.fn = "condition"
    /\ ~call.done
    /\ call' = [call EXCEPT !.done = TRUE,
                            !.result = execute_condition_node(call.a, call.b)]
    /\ UNCHANGED NonCallVars

\* replace_variables(call.a, call.b)
CallReplaceVariables ==
    /\ call.fn = "replace_variables"
    /\ ~call.done
    /\ call' = [call EXCEPT !.done = TRUE,
                            !.result = replace_variables(call.a, call.b)]
    /\ UNCHANGED NonCallVars

\* execute_data_transform_node with transformation json_extract: the context
\* data is call.a, the path parameter call.b
CallJsonExtract ==
    /\ call.fn = "json_extract"
    /\ ~call.done
    /\ call' = [call EXCEPT !.done = TRUE,
                            !.result = extract_json_path(call.a, call.b.v)]
    /\ UNCHANGED NonCallVars

\* execute_http_request_node on a node whose parameters are call.a, with the
\* context call.b: the arguments requests.request is called with
CallHttpRequest ==
    /\ call.fn = "http_request"
    /\ ~call.done
    /\ call' = [call EXCEPT !.done = TRUE,
                            !.result = http_request_call(call.a, call.b)]
    /\ UNCHANGED NonCallVars

\* The calls of validate_workflow_definition: the definitions the requests
\* carry, and a JSON value that is no object
IsValidateCall(c) ==
    \E d \in ApiDefinitions \cup {ApiDefinition("not_dict", <<>>, <<>>)} :
        c = NewCall("validate_workflow_definition", d, PyNone)

\* WorkflowService.validate_workflow_definition(call.a): True, or the
\* ValueError it raises
CallValidateDefinition ==
    /\ call.fn = "validate_workflow_definition"
    /\ ~call.done
    /\ call' = [call EXCEPT
                  !.done = TRUE,
                  !.result = LET v == validate_workflow_definition(call.a)
                             IN  IF v = "True" THEN PyBool(TRUE)
                                 ELSE [t |-> "ValueError", v |-> v]]
    /\ UNCHANGED NonCallVars

NextEval ==
    \/ CallConditionNode
    \/ CallReplaceVariables
    \/ CallJsonExtract
    \/ CallHttpRequest
    \/ CallValidateDefinition

-----------------------------------------------------------------------------
(* Notification channel: ConnectionManager and WebSocketEvents *)

\* Users, and the websockets each of them opens: 1, 2 and 4 belong to u1, 3 to
\* u2
Users == {"u1", "u2"}
Conns == {1, 2, 3, 4}
Owner(c) == IF c = 3 THEN "u2" ELSE "u1"

\* The workflow and the execution of the events, and another workflow
EventWorkflow == "w1"
EventExecution == "e1"
WorkflowIds == {"w1", "w2"}
ExecutionIds == {"e1"}

\* Workflow.user_id, the user get_workflow returns the workflow to
WorkflowOwner(id) == IF id = "w1" THEN "u1" ELSE "u2"

\* list.remove(x) on a list that holds x: the first x goes
RemoveFirst(s, x) ==
    LET k == Pos(s, x) IN SubSeq(s, 1, k - 1) \o SubSeq(s, k + 1, Len(s))

\* del d[k]
DictDel(d, k) == [x \in (DOMAIN d) \ {k} |-> d[x]]

\* d[k] = v
DictPut(d, k, v) == [x \in (DOMAIN d) \cup {k} |-> IF x = k THEN v ELSE d[x]]

\* ConnectionManager.__init__, no websocket accepted yet, no coroutine started.
\*   active   active_connections: user id -> list of websockets
\*   slots    the entries of the active_connections dict in the order of
\*            insertion, "" where a key was deleted: what an iterator over its
\*            keys walks
\*   wsubs, esubs   workflow_subscriptions, execution_subscriptions: id -> set
\*            of user ids
\*   sock     per websocket, where its endpoint stands: "new" before connect,
\*            "open" in the receive loop, "closed" after manager.disconnect,
\*            "aborted" after the endpoint closed it on another exception
\*   broken   the open websockets on which send_text raises
\*   tasks    the coroutines of events and sends, see NewTask
\*   ops      history: the number of steps the endpoints have made
\*   sent     history: the send_text calls that returned, each with live and
\*            late of its coroutine and the broadcast that made it
\*   dropped  history, per user: "lost" when manager.disconnect was called for
\*            a websocket of the user who was in a subscription set then, "bare"
\*            when the user was in none, and the user has sent no subscribe
\*            message since; "no" otherwise
\*   emptied  history: an unsubscribe message took the last user out of a set
NewManager ==
    [on |-> TRUE, active |-> EmptyDict, slots |-> <<>>, wsubs |-> EmptyDict,
     esubs |-> EmptyDict,
     sock |-> [c \in Conns |-> "new"], broken |-> {}, tasks |-> <<>>,
     ops |-> 0, sent |-> {}, dropped |-> [u \in Users |-> "no"], emptied |-> FALSE]

\* A coroutine at its call.
\*   kind     "event": WebSocketEvents.execution_started and the like, which
\*            broadcast to the workflow's and then to the execution's
\*            subscribers; "workflow": workflow_updated, workflow_deleted and
\*            webhook_received, which broadcast to the workflow's subscribers
\*            only; "direct": workflow_created, which calls send_to_user;
\*            "system": system_status, which calls send_to_user for every key
\*            of active_connections
\*   pc       "bcast", "next", "keys", "user", "conn", "cleanup": code the event
\*            loop runs without a break, positions of RunTask only;
\*            "await_send": suspended in await connection.send_text; "done";
\*            "raised": an exception left the coroutine
\*   phase    the broadcast under way: "wf" or "ex"
\*   size, visited, dirty, orphan   the iterator over the set of subscribers:
\*            the size of the set when the loop began, the users yielded, whether
\*            the set was changed since, whether the set was deleted from the dict
\*   kpos, kleft   the iterator of system_status over the keys of
\*            active_connections: the entries it has passed, the keys it has
\*            still to yield; size is the size of the dict when the loop began
\*   user, idx, lorphan   send_to_user: its user_id, the index of the loop over
\*            the user's list, whether that list was deleted from the dict
\*   cur, disc   the websocket of the pending send_text, disconnected_connections
\*   live, late   history: when the pending send_text was called, the user
\*            was subscribed to the workflow or to the execution of the event
\*            (live), and a disconnect had been handled for the user with no
\*            subscribe message of the user since (late)
\*   snap, failed   history: the websockets of the targeted users when the send
\*            to each began, the websockets whose send raised
\*   raised   the name of the exception that left the coroutine, "" for none
\*   keyed, dumps   the id the broadcast looks up is a str, as the keys of the
\*            subscription dicts are; json.dumps(message) returns
\*   quiet    history: no endpoint has acted since the coroutine was called
NewTask(kind, user) ==
    [kind |-> kind, quiet |-> TRUE,
     pc |-> IF kind \in {"event", "workflow"} THEN "bcast"
            ELSE IF kind = "system" THEN "keys" ELSE "user",
     phase |-> "wf",
     size |-> 0, visited |-> {}, dirty |-> FALSE, orphan |-> FALSE,
     kpos |-> 0, kleft |-> 0,
     user |-> user, idx |-> 0, lorphan |-> FALSE, cur |-> 0, live |-> FALSE,
     late |-> FALSE,
     disc |-> <<>>, snap |-> {}, failed |-> {}, raised |-> "",
     keyed |-> TRUE, dumps |-> TRUE]

\* The subscribers dict a broadcast reads
SubsOf(m, phase) == IF phase = "wf" THEN m.wsubs ELSE m.esubs

\* The id a broadcast looks up: the workflow_id or the execution_id of the event
EventKey(phase) == IF phase = "wf" THEN EventWorkflow ELSE EventExecution

\* The user is subscribed to the workflow or to the execution of the events
Subscribed(m, u) ==
    \/ EventWorkflow \in DOMAIN m.wsubs /\ u \in m.wsubs[EventWorkflow]
    \/ EventExecution \in DOMAIN m.esubs /\ u \in m.esubs[EventExecution]

\* The user is in a set of workflow_subscriptions or execution_subscriptions
InAnySet(m, u) ==
    \/ \E id \in DOMAIN m.wsubs : u \in m.wsubs[id]
    \/ \E id \in DOMAIN m.esubs : u \in m.esubs[id]

\* The coroutine is inside the loop over the subscribers of (phase, id)
Iterating(t, phase, id) ==
    /\ t.kind \in {"event", "workflow"}
    /\ t.phase = phase
    /\ id = EventKey(phase)
    /\ t.pc \in {"next", "user", "conn", "await_send", "cleanup"}

\* A set of subscribers was changed (deleted from its dict when gone): the
\* iterators over it see the change
TouchSet(tasks, phase, id, gone) ==
    [k \in 1..Len(tasks) |->
        IF Iterating(tasks[k], phase, id)
        THEN [tasks[k] EXCEPT !.dirty = TRUE, !.orphan = @ \/ gone]
        ELSE tasks[k]]

\* The list of a user was deleted from active_connections: the loops over it
\* keep the list object, which is empty
TouchList(tasks, u) ==
    [k \in 1..Len(tasks) |->
        IF tasks[k].user = u /\ tasks[k].pc \in {"conn", "await_send"}
        THEN [tasks[k] EXCEPT !.lorphan = TRUE]
        ELSE tasks[k]]

\* subscribe_to_workflow / subscribe_to_execution on the dict subs
SubscribeIn(subs, id, u) ==
    DictPut(subs, id, (IF id \in DOMAIN subs THEN subs[id] ELSE {}) \cup {u})

UnsubscribeKeepingKey(subs, id, u) ==
    IF id \notin DOMAIN subs THEN subs
    ELSE [x \in DOMAIN subs |-> IF x = id THEN subs[x] \ {u} ELSE subs[x]]

\* unsubscribe_from_workflow / unsubscribe_from_execution on the dict subs:
\* discard, and delete the set when it is empty
UnsubscribeIn(subs, id, u) ==
    IF id \notin DOMAIN subs THEN subs
    ELSE IF subs[id] \ {u} = {} THEN DictDel(subs, id)
    ELSE DictPut(subs, id, subs[id] \ {u})

\* _remove_from_subscriptions on the dict subs: the user leaves every set
RemoveFromAll(subs, u) ==
    LET kept == {id \in DOMAIN subs : subs[id] \ {u} # {}}
    IN  [id \in kept |-> subs[id] \ {u}]

\* The iterators of the coroutines after the dict of a phase went from old to new
TouchChanged(tasks, phase, old, new) ==
    LET id == EventKey(phase)
    IN  IF id \in DOMAIN old /\ (id \notin DOMAIN new \/ new[id] # old[id])
        THEN TouchSet(tasks, phase, id, id \notin DOMAIN new)
        ELSE tasks

\* An endpoint acted: the coroutines called before are no longer quiet
Heard(tasks) ==
    [k \in 1..Len(tasks) |-> [tasks[k] EXCEPT !.quiet = FALSE]]

WsOther == <<definition, schedule, queue, wk, status, started_at, completed_at,
             error_message, output_data, logs, now, statusHist, cancelled, mayFail,
             present, api, call, eid, peer>>

\* websocket_endpoint up to the receive loop: manager.connect(websocket, user_id)
Connect(c) ==
    /\ ws.sock[c] = "new"
    /\ ws.ops < MaxOps
    /\ LET u == Owner(c)
           list == IF u \in DOMAIN ws.active THEN ws.active[u] ELSE <<>>
       IN  ws' = [ws EXCEPT !.active = DictPut(@, u, Append(list, c)),
                            !.slots = IF u \in DOMAIN ws.active THEN @
                                      ELSE Append(@, u),
                            !.sock[c] = "open", !.ops = @ + 1,
                            !.tasks = Heard(@)]
    /\ UNCHANGED WsOther

\* The socket of an open websocket breaks: send_text raises from now on
Break(c) ==
    /\ ws.sock[c] = "open"
    /\ c \notin ws.broken
    /\ ws.ops < MaxOps
    /\ ws' = [ws EXCEPT !.broken = @ \cup {c}, !.ops = @ + 1, !.tasks = Heard(@)]
    /\ UNCHANGED WsOther

\* websocket_endpoint on WebSocketDisconnect: manager.disconnect(websocket, user_id)
Disconnect(c) ==
    /\ ws.sock[c] = "open"
    /\ ws.ops < MaxOps
    /\ LET u == Owner(c)
           has == u \in DOMAIN ws.active /\ InSeq(ws.active[u], c)
           list == IF has THEN RemoveFirst(ws.active[u], c) ELSE <<>>
           active == IF ~has THEN ws.active
                     ELSE IF list = <<>> THEN DictDel(ws.active, u)
                     ELSE DictPut(ws.active, u, list)
           wsubs == RemoveFromAll(ws.wsubs, u)
           esubs == RemoveFromAll(ws.esubs, u)
           t1 == IF has /\ list = <<>> THEN TouchList(ws.tasks, u) ELSE ws.tasks
           t2 == TouchChanged(t1, "wf", ws.wsubs, wsubs)
           t3 == TouchChanged(t2, "ex", ws.esubs, esubs)
       IN  ws' = [ws EXCEPT !.active = active, !.wsubs = wsubs, !.esubs = esubs,
                            !.slots = IF has /\ list = <<>>
                                      THEN [i \in 1..Len(@) |->
                                              IF @[i] = u THEN "" ELSE @[i]]
                                      ELSE @,
                            !.sock[c] = "closed", !.broken = @ \ {c},
                            !.tasks = Heard(t3), !.ops = @ + 1,
                            !.dropped[u] = IF InAnySet(ws, u) \/ @ = "lost"
                                           THEN "lost" ELSE "bare"]
    /\ UNCHANGED WsOther

\* websocket_endpoint on an exception other than WebSocketDisconnect, a
\* message that is not JSON for one: the websocket is closed and
\* manager.disconnect is not called
Abort(c) ==
    /\ ws.sock[c] = "open"
    /\ ws.ops < MaxOps
    /\ ws' = [ws EXCEPT !.sock[c] = "aborted", !.broken = @ \ {c}, !.ops = @ + 1,
                        !.tasks = Heard(@)]
    /\ UNCHANGED WsOther

\* The user has an endpoint in its receive loop
Online(u) == \E c \in Conns : Owner(c) = u /\ ws.sock[c] = "open"

\* handle_websocket_message, subscribe_workflow and subscribe_execution
Subscribe(u, phase, id) ==
    /\ Online(u)
    /\ ws.ops < MaxOps
    /\ LET old == SubsOf(ws, phase)
           new == SubscribeIn(old, id, u)
           tasks == TouchChanged(ws.tasks, phase, old, new)
       IN  ws' = IF phase = "wf"
                 THEN [ws EXCEPT !.wsubs = new, !.tasks = Heard(tasks), !.ops = @ + 1,
                                 !.dropped[u] = "no"]
                 ELSE [ws EXCEPT !.esubs = new, !.tasks = Heard(tasks), !.ops = @ + 1,
                                 !.dropped[u] = "no"]
    /\ UNCHANGED WsOther

\* handle_websocket_message, unsubscribe_workflow and unsubscribe_execution
Unsubscribe(u, phase, id) ==
    /\ Online(u)
    /\ ws.ops < MaxOps
    /\ LET old == SubsOf(ws, phase)
           new == UnsubscribeIn(old, id, u)
           tasks == TouchChanged(ws.tasks, phase, old, new)
           last == id \in DOMAIN old /\ old[id] = {u}
       IN  ws' = IF phase = "wf"
                 THEN [ws EXCEPT !.wsubs = new, !.tasks = Heard(tasks), !.ops = @ + 1,
                                 !.emptied = @ \/ last]
                 ELSE [ws EXCEPT !.esubs = new, !.tasks = Heard(tasks), !.ops = @ + 1,
                                 !.emptied = @ \/ last]
    /\ UNCHANGED WsOther

\* The manager m with the coroutine k gone on as t
Goes(m, k, t) == [m EXCEPT !.tasks[k] = t]

\* The loop over the subscribers is over: the execution's subscribers follow the
\* workflow's, and the event returns after them
EndPhase(t) ==
    IF t.kind = "event" /\ t.phase = "wf" THEN [t EXCEPT !.phase = "ex", !.pc = "bcast"]
    ELSE [t EXCEPT !.pc = "done"]

\* send_to_user returns to its caller
Return(t) ==
    IF t.kind \in {"event", "workflow"} THEN [t EXCEPT !.pc = "next"]
    ELSE IF t.kind = "system" THEN [t EXCEPT !.pc = "keys"]
    ELSE [t EXCEPT !.pc = "done"]

\* broadcast_to_workflow_subscribers / broadcast_to_execution_subscribers: the
\* test `id in subscriptions` and the start of the loop over the set
StepBcast(m, k) ==
    LET t == m.tasks[k]
        subs == SubsOf(m, t.phase)
        id == EventKey(t.phase)
    IN  {Goes(m, k, IF t.keyed /\ id \in DOMAIN subs
                    THEN [t EXCEPT !.pc = "next", !.size = Cardinality(subs[id]),
                                   !.visited = {}, !.dirty = FALSE, !.orphan = FALSE]
                    ELSE EndPhase(t))}

\* The set the iterator of the coroutine reads: the one in the dict, or the
\* emptied one that was deleted from it
IteratedSet(m, t) ==
    IF t.orphan THEN {} ELSE SubsOf(m, t.phase)[EventKey(t.phase)]

\* `for user_id in subscriptions[id]`, one turn of the loop: RuntimeError when
\* the set changed size; the users come in the order of the hash table, and
\* after a change of the set the iterator may miss users
StepNext(m, k) ==
    LET t == m.tasks[k]
        set == IteratedSet(m, t)
    IN  IF Cardinality(set) # t.size
        THEN {Goes(m, k, [t EXCEPT !.pc = "raised", !.raised = "RuntimeError"])}
        ELSE {Goes(m, k, [t EXCEPT !.pc = "user", !.user = u,
                                   !.visited = @ \cup {u}]) :
                 u \in set \ t.visited}
             \cup (IF set \ t.visited = {} \/ t.dirty
                   THEN {Goes(m, k, EndPhase(t))} ELSE {})

\* `for user_id in manager.active_connections.keys()` of system_status, one
\* turn of the loop: RuntimeError when the dict changed size; the iterator
\* walks the entries past its position, and RuntimeError again when it meets
\* a key after it has yielded as many as the dict held
StepKeys(m, k) ==
    LET t == m.tasks[k]
        rest == {i \in (t.kpos + 1)..Len(m.slots) : m.slots[i] # ""}
    IN  IF Cardinality(DOMAIN m.active) # t.size
        THEN {Goes(m, k, [t EXCEPT !.pc = "raised", !.raised = "RuntimeError"])}
        ELSE IF rest = {}
        THEN {Goes(m, k, [t EXCEPT !.pc = "done"])}
        ELSE IF t.kleft = 0
        THEN {Goes(m, k, [t EXCEPT !.pc = "raised", !.raised = "RuntimeError"])}
        ELSE LET i == CHOOSE x \in rest : \A y \in rest : x <= y
             IN  {Goes(m, k, [t EXCEPT !.pc = "user", !.user = m.slots[i],
                                       !.kpos = i, !.kleft = @ - 1])}

\* send_to_user: the test `user_id in active_connections` and the start of the
\* loop over the user's list
StepUser(m, k) ==
    LET t == m.tasks[k]
    IN  {Goes(m, k, IF t.user \in DOMAIN m.active
                    THEN [t EXCEPT !.pc = "conn", !.idx = 0, !.lorphan = FALSE,
                                   !.disc = <<>>,
                                   !.snap = @ \cup {m.active[t.user][i] :
                                                     i \in 1..Len(m.active[t.user])}]
                    ELSE Return(t))}

\* The list the loop of send_to_user reads: the one in the dict, or the emptied
\* one that was deleted from it
IteratedList(m, t) ==
    IF t.lorphan THEN <<>> ELSE m.active[t.user]

\* `for connection in active_connections[user_id]`, one turn of the loop, up to
\* the await of connection.send_text. json.dumps(message) is evaluated before
\* send_text is called: when it raises, the except clause appends the
\* websocket to disconnected_connections and the loop goes on with no await
StepConn(m, k) ==
    LET t == m.tasks[k]
        list == IteratedList(m, t)
    IN  {Goes(m, k, IF t.idx >= Len(list)
                    THEN [t EXCEPT !.pc = "cleanup"]
                    ELSE IF ~t.dumps
                    THEN [t EXCEPT !.cur = list[t.idx + 1], !.idx = @ + 1,
                                   !.disc = Append(@, list[t.idx + 1]),
                                   !.failed = @ \cup {list[t.idx + 1]}]
                    ELSE [t EXCEPT !.pc = "await_send", !.cur = list[t.idx + 1],
                                   !.idx = @ + 1,
                                   !.live = Subscribed(m, t.user),
                                   !.late = m.dropped[t.user] # "no"])}

\* `for connection in disconnected_connections:
\*      active_connections[user_id].remove(connection)`: KeyError when the user
\* has no list, ValueError when the list does not hold the websocket
RECURSIVE RemoveDisconnected(_, _, _)
RemoveDisconnected(active, u, disc) ==
    IF disc = <<>> THEN [raised |-> "", active |-> active]
    ELSE IF u \notin DOMAIN active THEN [raised |-> "KeyError", active |-> active]
    ELSE IF ~InSeq(active[u], Head(disc)) THEN [raised |-> "ValueError", active |-> active]
    ELSE RemoveDisconnected(DictPut(active, u, RemoveFirst(active[u], Head(disc))),
                            u, Tail(disc))

\* send_to_user after its loop
StepCleanup(m, k) ==
    LET t == m.tasks[k]
        r == RemoveDisconnected(m.active, t.user, t.disc)
        t2 == IF r.raised = "" THEN Return(t)
              ELSE [t EXCEPT !.pc = "raised", !.raised = r.raised]
    IN  {[m EXCEPT !.active = r.active, !.tasks[k] = t2]}

\* The event loop runs the coroutine k until it is suspended in an await,
\* returns or raises; no endpoint and no other coroutine runs in between. The
\* managers it can leave behind:
RECURSIVE RunTask(_, _)
RunTask(m, k) ==
    LET pc == m.tasks[k].pc
        step == IF pc = "bcast" THEN StepBcast(m, k)
                ELSE IF pc = "next" THEN StepNext(m, k)
                ELSE IF pc = "keys" THEN StepKeys(m, k)
                ELSE IF pc = "user" THEN StepUser(m, k)
                ELSE IF pc = "conn" THEN StepConn(m, k)
                ELSE StepCleanup(m, k)
    IN  IF pc \in {"await_send", "done", "raised"} THEN {m}
        ELSE UNION {RunTask(m2, k) : m2 \in step}

\* The coroutine t is called and runs to its first await: the managers it can
\* leave behind
Called(t) == RunTask([ws EXCEPT !.tasks = Append(@, t)], Len(ws.tasks) + 1)

\* WebSocketEvents.execution_started, execution_progress, execution_completed or
\* execution_failed is called for the execution of EventWorkflow
StartEvent ==
    /\ Len(ws.tasks) < MaxEvents
    /\ ws' \in Called(NewTask("event", ""))
    /\ UNCHANGED WsOther

\* WebSocketEvents.workflow_created: send_to_user(message, user_id)
StartDirect(u) ==
    /\ Len(ws.tasks) < MaxEvents
    /\ ws' \in Called(NewTask("direct", u))
    /\ UNCHANGED WsOther

\* WebSocketEvents.workflow_updated or workflow_deleted is called for
\* EventWorkflow: broadcast_to_workflow_subscribers and nothing else
StartWorkflowEvent ==
    /\ Len(ws.tasks) < MaxEvents
    /\ ws' \in Called(NewTask("workflow", ""))
    /\ UNCHANGED WsOther

\* The Python types of the ids in the dict passed to webhook_received:
\* handle_webhook passes the uuid.UUID values of the columns webhooks.id and
\* webhooks.workflow_id
IdTypes == {"str", "UUID"}

\* WebSocketEvents.webhook_received is called for a webhook of EventWorkflow
\* (webhooks.workflow_id is not nullable, so "if workflow_id" holds), with a
\* workflow_id of the type wid and an id of the type id. The broadcast to the
\* subscribers of the workflow finds the key only when workflow_id is a str,
\* and json.dumps(message) raises TypeError unless both ids are
StartWebhookReceived(wid, id) ==
    /\ Len(ws.tasks) < MaxEvents
    /\ ws' \in Called([NewTask("workflow", "")
                          EXCEPT !.keyed = wid = "str",
                                 !.dumps = wid = "str" /\ id = "str"])
    /\ UNCHANGED WsOther

\* WebSocketEvents.system_status is called: the loop over
\* manager.active_connections.keys() begins
StartSystemStatus ==
    /\ Len(ws.tasks) < MaxEvents
    /\ LET n == Cardinality(DOMAIN ws.active)
       IN  ws' \in Called([NewTask("system", "")
                             EXCEPT !.size = n, !.kleft = n])
    /\ UNCHANGED WsOther

\* connection.send_text returns or raises: the except clause of send_to_user
\* appends the websocket to disconnected_connections, and the coroutine runs on
\* to its next await
Resume(k) ==
    /\ k \in 1..Len(ws.tasks)
    /\ ws.tasks[k].pc = "await_send"
    /\ LET t == ws.tasks[k]
           ok == t.cur \notin ws.broken /\ ws.sock[t.cur] = "open"
       IN  ws' \in RunTask(
                     [ws EXCEPT
                        !.tasks[k] = IF ok THEN [t EXCEPT !.pc = "conn"]
                                     ELSE [t EXCEPT !.pc = "conn",
                                                    !.disc = Append(@, t.cur),
                                                    !.failed = @ \cup {t.cur}],
                        !.sent = IF ok
                                 THEN @ \cup {[task |-> k, kind |-> t.kind,
                                               conn |-> t.cur, user |-> t.user,
                                               live |-> t.live, late |-> t.late,
                                               phase |-> t.phase]}
                                 ELSE @], k)
    /\ UNCHANGED WsOther

\* sum(len(connections) for connections in active.values()) over the keys
RECURSIVE SumOfLens(_, _)
SumOfLens(active, keys) ==
    IF keys = {} THEN 0
    ELSE LET u == CHOOSE x \in keys : TRUE
         IN  Len(active[u]) + SumOfLens(active, keys \ {u})

\* get_connection_stats
get_connection_stats(m) ==
    [total_connections |-> SumOfLens(m.active, DOMAIN m.active),
     connected_users |-> Cardinality(DOMAIN m.active),
     workflow_subscriptions |-> Cardinality(DOMAIN m.wsubs),
     execution_subscriptions |-> Cardinality(DOMAIN m.esubs)]

NextWs ==
    \/ \E c \in Conns : Connect(c)
    \/ \E c \in Conns : Break(c)
    \/ \E c \in Conns : Disconnect(c)
    \/ \E c \in Conns : Abort(c)
    \/ \E u \in Users, id \in WorkflowIds : Subscribe(u, "wf", id)
    \/ \E u \in Users, id \in ExecutionIds : Subscribe(u, "ex", id)
    \/ \E u \in Users, id \in WorkflowIds : Unsubscribe(u, "wf", id)
    \/ \E u \in Users, id \in ExecutionIds : Unsubscribe(u, "ex", id)
    \/ StartEvent
    \/ \E u \in Users : StartDirect(u)
    \/ StartWorkflowEvent
    \/ \E wid, id \in IdTypes : StartWebhookReceived(wid, id)
    \/ StartSystemStatus
    \/ \E k \in 1..MaxEvents : Resume(k)

-----------------------------------------------------------------------------
(* Specifications *)

\* No other execution, no websocket
NoPeer == [eid |-> "none"]
NoWs == [on |-> FALSE]

\* The run as the API created it: pending, nothing stamped, no output, no logs
InitRun ==
    /\ wk = [w \in Workers |-> IdleWorker]
    /\ status = "pending"
    /\ started_at = 0
    /\ completed_at = 0
    /\ error_message = ""
    /\ output_data = [present |-> FALSE, dict |-> NewDict]
    /\ logs = <<>>
    /\ now = 0
    /\ statusHist = <<"pending">>
    /\ cancelled = FALSE
    /\ api = NoApi
    /\ call = NoCall
    /\ eid = "e1"
    /\ peer = NoPeer
    /\ ws = NoWs

\* Both rows of the run are in the store
BothPresent == [execution |-> TRUE, workflow |-> TRUE]

\* The store holds an execution row only with the workflow row it references
\* (executions.workflow_id is a foreign key)
Init ==
    /\ InitRun
    /\ present \in {p \in [execution : BOOLEAN, workflow : BOOLEAN] :
                       p.execution => p.workflow}
    /\ IsRunDefinition(definition)
    /\ schedule = [done |-> TRUE, order |-> <<>>]
    /\ queue = 1
    /\ mayFail = TRUE

InitDup ==
    /\ InitRun
    /\ present = BothPresent
    /\ IsRunDefinition(definition)
    /\ schedule = [done |-> TRUE, order |-> <<>>]
    /\ queue = MaxDeliveries
    /\ mayFail = FALSE

InitCancel ==
    /\ InitRun
    /\ present = BothPresent
    /\ IsRunDefinition(definition)
    /\ schedule = [done |-> TRUE, order |-> <<>>]
    /\ queue = 1
    /\ mayFail = FALSE

InitOrder ==
    /\ InitRun
    /\ present = BothPresent
    /\ IsSchedDefinition(definition)
    /\ schedule = [done |-> FALSE, order |-> <<>>]
    /\ queue = 0
    /\ mayFail = FALSE

NextRun ==
    \E w \in Workers :
        \/ Deliver(w)
        \/ LoadExecution(w)
        \/ LoadWorkflow(w)
        \/ SetRunning(w)
        \/ CommitRunning(w)
        \/ LogStart(w)
        \/ ReadDefinition(w)
        \/ BuildContext(w)
        \/ NodeStep(w)
        \/ ExecuteNode(w)
        \/ LogNodeError(w)
        \/ UpdateProgress(w)
        \/ SetCompleted(w)
        \/ CommitCompleted(w)
        \/ LogCompleted(w)
        \/ SetFailed(w)
        \/ CommitFailed(w)
        \/ LogFailed(w)

\* The run and, between any two of its steps, the deletion of its workflow
Next == NextRun \/ DeleteWorkflow

\* Two executions, each with a WorkflowExecutor and a session of its own. The
\* variables of the run show the execution whose worker steps next, peer keeps
\* the rows and the executor of the other one; execution_logs and the clock
\* are common to both. The scheduler passes from one worker to the other:
Switch ==
    /\ peer.eid # "none"
    /\ eid' = peer.eid
    /\ definition' = peer.definition
    /\ queue' = peer.queue
    /\ wk' = peer.wk
    /\ status' = peer.status
    /\ started_at' = peer.started_at
    /\ completed_at' = peer.completed_at
    /\ error_message' = peer.error_message
    /\ output_data' = peer.output_data
    /\ statusHist' = peer.statusHist
    /\ peer' = [eid |-> eid, definition |-> definition, queue |-> queue, wk |-> wk,
                status |-> status, started_at |-> started_at,
                completed_at |-> completed_at, error_message |-> error_message,
                output_data |-> output_data, statusHist |-> statusHist]
    /\ UNCHANGED <<schedule, logs, now, cancelled, mayFail, present, api, call, ws>>

NextPair == NextRun \/ Switch

NextCancel == NextRun \/ Cancel

Spec == Init /\ [][Next]_vars

SpecDup == InitDup /\ [][NextRun]_vars

SpecCancel == InitCancel /\ [][NextCancel]_vars

SpecOrder == InitOrder /\ [][ComputeOrder]_vars

\* The endpoints, from an empty store
InitApi ==
    /\ InitRun
    /\ present = [execution |-> FALSE, workflow |-> FALSE]
    /\ definition = [nodes |-> <<>>, connections |-> <<>>]
    /\ schedule = [done |-> TRUE, order |-> <<>>]
    /\ queue = 0
    /\ mayFail = FALSE

SpecApi == InitApi /\ [][NextApi]_vars

\* One delivery of a run over every node kind; no commit or progress update
\* raises
InitFlow ==
    /\ InitRun
    /\ present = BothPresent
    /\ IsFlowDefinition(definition)
    /\ schedule = [done |-> TRUE, order |-> <<>>]
    /\ queue = 1
    /\ mayFail = FALSE

SpecFlow == InitFlow /\ [][NextRun]_vars

\* The definitions of the two concurrent runs: start a -> end b; generic a,
\* condition b with "parameters": null (raises), end c; two nodes of id a, the
\* first a condition on the execution id; start a, generic b with b -> a
PairDefinitions ==
    <<[nodes |-> FlowNodeList(<<1, 2>>, <<FlowKinds[1], FlowKinds[2]>>),
       connections |-> <<Conn("a", "b")>>],
      [nodes |-> FlowNodeList(<<1, 2, 3>>, <<FlowKinds[4], FlowKinds[10], FlowKinds[2]>>),
       connections |-> <<>>],
      [nodes |-> FlowNodeList(<<1, 1>>, <<FlowKinds[6], FlowKinds[2]>>),
       connections |-> <<>>],
      [nodes |-> FlowNodeList(<<1, 2>>, <<FlowKinds[1], FlowKinds[4]>>),
       connections |-> <<Conn("b", "a")>>]>>

\* An execution as the API created it, with its task in the queue
NewRun(e, d) ==
    [eid |-> e, definition |-> d, queue |-> 1, wk |-> [w \in Workers |-> IdleWorker],
     status |-> "pending", started_at |-> 0, completed_at |-> 0, error_message |-> "",
     output_data |-> [present |-> FALSE, dict |-> NewDict], statusHist |-> <<"pending">>]

\* Executions e1 and e2, pending, each delivered once to a worker of its own
InitPair ==
    /\ \E i, j \in 1..Len(PairDefinitions) :
          /\ definition = PairDefinitions[i]
          /\ peer = NewRun("e2", PairDefinitions[j])
    /\ eid = "e1"
    /\ queue = 1
    /\ wk = [w \in Workers |-> IdleWorker]
    /\ status = "pending"
    /\ started_at = 0
    /\ completed_at = 0
    /\ error_message = ""
    /\ output_data = [present |-> FALSE, dict |-> NewDict]
    /\ statusHist = <<"pending">>
    /\ logs = <<>>
    /\ now = 0
    /\ cancelled = FALSE
    /\ api = NoApi
    /\ call = NoCall
    /\ ws = NoWs
    /\ present = BothPresent
    /\ schedule = [done |-> TRUE, order |-> <<>>]
    /\ mayFail = FALSE

SpecPair == InitPair /\ [][NextPair]_vars

\* One call of a handler function on drawn arguments
InitEval ==
    /\ wk = [w \in Workers |-> IdleWorker]
    /\ status = "pending"
    /\ started_at = 0
    /\ completed_at = 0
    /\ error_message = ""
    /\ output_data = [present |-> FALSE, dict |-> NewDict]
    /\ logs = <<>>
    /\ now = 0
    /\ statusHist = <<"pending">>
    /\ cancelled = FALSE
    /\ api = NoApi
    /\ eid = "e1"
    /\ peer = NoPeer
    /\ ws = NoWs
    /\ present = BothPresent
    /\ definition = [nodes |-> <<>>, connections |-> <<>>]
    /\ schedule = [done |-> TRUE, order |-> <<>>]
    /\ queue = 0
    /\ mayFail = FALSE
    /\ \/ IsConditionCall(call)
       \/ IsTemplateCall(call)
       \/ IsExtractCall(call)
       \/ IsHttpCall(call)
       \/ IsValidateCall(call)

SpecEval == InitEval /\ [][NextEval]_vars

\* The notification channel after construction; no run is modelled
InitWs ==
    /\ wk = [w \in Workers |-> IdleWorker]
    /\ status = "pending"
    /\ started_at = 0
    /\ completed_at = 0
    /\ error_message = ""
    /\ output_data = [present |-> FALSE, dict |-> NewDict]
    /\ logs = <<>>
    /\ now = 0
    /\ statusHist = <<"pending">>
    /\ cancelled = FALSE
    /\ api = NoApi
    /\ call = NoCall
    /\ eid = "e1"
    /\ peer = NoPeer
    /\ present = BothPresent
    /\ definition = [nodes |-> <<>>, connections |-> <<>>]
    /\ schedule = [done |-> TRUE, order |-> <<>>]
    /\ queue = 0
    /\ mayFail = FALSE
    /\ ws = NewManager

SpecWs == InitWs /\ [][NextWs]_vars

-----------------------------------------------------------------------------
(* Vocabulary of the properties *)

Distinct(s) == \A i, j \in 1..Len(s) : s[i] = s[j] => i = j

Occurrences(s, x) == Cardinality({i \in 1..Len(s) : s[i] = x})

\* The writes of a status history that take the status into the set S
Transitions(hist, S) == {i \in 2..Len(hist) : hist[i] \in S /\ hist[i - 1] \notin S}

Edges(connections) ==
    {<<connections[i].source, connections[i].target>> : i \in 1..Len(connections)}

RECURSIVE TransitiveClosure(_)
TransitiveClosure(R) ==
    LET next == R \cup UNION {{<<p[1], q[2]>> : q \in {r \in R : r[1] = p[2]}} : p \in R}
    IN  IF next = R THEN R ELSE TransitiveClosure(next)

\* Some connection path leads from an id back to itself (a self-loop included)
HasCycle(connections) ==
    \E e \in TransitiveClosure(Edges(connections)) : e[1] = e[2]

\* Some connection path leads from a declared node back to itself
HasNodeCycle(d) ==
    \E e \in TransitiveClosure(Edges(d.connections)) :
        e[1] = e[2] /\ e[1] \in IdSet(d.nodes)

\* Every connection names declared nodes only
DeclaredOnly(d) ==
    \A i \in 1..Len(d.connections) :
        /\ d.connections[i].source \in IdSet(d.nodes)
        /\ d.connections[i].target \in IdSet(d.nodes)

\* The nodes and connections satisfy the data model of a definition
WellFormed(d) == Distinct(NodeIds(d.nodes)) /\ DeclaredOnly(d)

-----------------------------------------------------------------------------
(* Graph scheduler properties, under SpecOrder *)

\* C4: for nodes with distinct ids and connections that name declared nodes only
\* and contain no cycle, build_execution_order returns a permutation of the node
\* ids in which every connection's source comes before its target.
C4_TopologicalOrder ==
    (schedule.done /\ WellFormed(definition) /\ ~HasCycle(definition.connections))
    => /\ Len(schedule.order) = Len(definition.nodes)
       /\ \A id \in IdSet(definition.nodes) : Occurrences(schedule.order, id) = 1
       /\ \A i \in 1..Len(definition.connections) :
             Pos(schedule.order, definition.connections[i].source)
                < Pos(schedule.order, definition.connections[i].target)

\* C4's case: three nodes and two connections, acyclic, whose order is not the
\* declaration order
C4_Witness ==
    /\ schedule.done
    /\ WellFormed(definition)
    /\ ~HasCycle(definition.connections)
    /\ Len(definition.nodes) = 3
    /\ Len(definition.connections) = 2
    /\ schedule.order # NodeIds(definition.nodes)

\* C5: whenever the connections contain a cycle (here: one through a declared
\* node), build_execution_order returns the node ids in declaration order, so
\* as many ids as there are nodes.
C5_CycleFallsBackToDeclarationOrder ==
    (schedule.done /\ HasNodeCycle(definition))
    => schedule.order = NodeIds(definition.nodes)

\* C6: for any connections, dangling ones included, build_execution_order
\* returns every declared node id exactly once and no id that is not declared
\* (stated for nodes with distinct ids).
C6_CoversExactlyDeclaredNodes ==
    (schedule.done /\ Distinct(NodeIds(definition.nodes)))
    => /\ \A id \in IdSet(definition.nodes) : Occurrences(schedule.order, id) = 1
       /\ \A i \in 1..Len(schedule.order) : schedule.order[i] \in IdSet(definition.nodes)

\* Every predecessor of the node id is among the first p - 1 ids of the order
ReadyAt(id, order, p) ==
    \A i \in 1..Len(definition.connections) :
        definition.connections[i].target = id
        => \E j \in 1..(p - 1) : order[j] = definition.connections[i].source

\* C26: among the nodes that are ready at a point of the sort (all their
\* predecessors already emitted), build_execution_order emits the one declared
\* first, whatever the order of the connections (stated for nodes with distinct
\* ids and acyclic connections between declared nodes).
C26_TiesByDeclarationOrder ==
    (schedule.done /\ WellFormed(definition) /\ ~HasCycle(definition.connections))
    => \A p \in 1..Len(schedule.order) : \A q \in (p + 1)..Len(schedule.order) :
          ReadyAt(schedule.order[q], schedule.order, p)
          => Lookup(definition.nodes, schedule.order[p])
                < Lookup(definition.nodes, schedule.order[q])

-----------------------------------------------------------------------------
(* Run properties *)

\* The invocation has ended without any commit or progress update raising
EndedWithoutFault(w) == wk[w].pc = "done" /\ wk[w].faults = {}

\* C1: in one invocation the stored status goes pending, running, then one of
\* completed and failed, and is not written again after that terminal value,
\* also when a log write, a status write or a progress update raises: at every
\* moment the values it has had are the beginning of such a sequence.
C1_StatusWrittenInOrderOnce ==
    /\ Len(statusHist) <= 3
    /\ statusHist[1] = "pending"
    /\ Len(statusHist) >= 2 => statusHist[2] = "running"
    /\ Len(statusHist) >= 3 => statusHist[3] \in {"completed", "failed"}

\* C2: a run whose every node handler succeeds ends completed, started_at
\* before completed_at, with output_data holding one entry for every node id
\* of the definition, its keys in execution order.
C2_SuccessfulRunCompletes ==
    \A w \in Workers :
        (EndedWithoutFault(w) /\ wk[w].raised = "")
        => /\ status = "completed"
           /\ statusHist = <<"pending", "running", "completed">>
           /\ 0 < started_at
           /\ started_at < completed_at
           /\ output_data.present
           /\ {output_data.dict.keys[i] : i \in 1..Len(output_data.dict.keys)}
                 = IdSet(definition.nodes)
           /\ \A i, j \in 1..Len(output_data.dict.keys) :
                 i < j => Pos(wk[w].order, output_data.dict.keys[i])
                             < Pos(wk[w].order, output_data.dict.keys[j])

\* C3: a run in which the handler of a node raises ends failed, with an error
\* message, and its logs hold an error entry whose metadata names that node,
\* for as long as the rows of the run are in the store.
C3_RaisingNodeFailsRun ==
    \A w \in Workers :
        (present.execution /\ EndedWithoutFault(w) /\ wk[w].raised # "")
        => /\ status = "failed"
           /\ statusHist = <<"pending", "running", "failed">>
           /\ error_message # ""
           /\ \E i \in 1..Len(logs) :
                 logs[i].level = "error" /\ logs[i].node_id = wk[w].raised

\* C3's case: the second dispatched node raised and the run has ended
C3_Witness ==
    \E w \in Workers :
        /\ present.execution
        /\ EndedWithoutFault(w)
        /\ wk[w].raised # ""
        /\ Len(wk[w].dispatched) = 2
        /\ wk[w].dispatched[1] # wk[w].raised

\* C7: when the execution id is delivered more than once, one invocation alone
\* dispatches nodes and the run makes one transition to running and one into a
\* terminal state.
C7_DuplicateDeliveryChangesNothing ==
    /\ Cardinality({w \in Workers : wk[w].dispatched # <<>>}) <= 1
    /\ Cardinality(Transitions(statusHist, {"running"})) <= 1
    /\ Cardinality(Transitions(statusHist, Terminal)) <= 1

\* C8: once started_at or completed_at is set, no later step and no later
\* invocation overwrites it.
C8_TimestampsNeverRewritten ==
    [][/\ started_at # 0 => started_at' = started_at
       /\ completed_at # 0 => completed_at' = completed_at]_vars

\* C9: once an external actor has set the stored status to cancelled, no step
\* of the engine overwrites it.
C9_CancelledStays ==
    [][status = "cancelled" => status' = "cancelled"]_vars

\* C10: when a progress update raises after a node has executed, and nothing
\* else fails, the run still ends completed and the invocation reports it.
C10_ProgressFailureIgnored ==
    \A w \in Workers :
        (wk[w].pc = "done" /\ wk[w].faults = {"progress"} /\ wk[w].raised = "")
        => status = "completed" /\ wk[w].ret = "completed"

\* C32: an invocation that has ended leaves no run in running: once the stored
\* status has been running, the invocation ends with completed or failed stored,
\* also when a log write or a status write raised after the transition.
C32_NoRunLeftRunning ==
    \A w \in Workers :
        (wk[w].pc = "done" /\ InSeq(statusHist, "running"))
        => status \in {"completed", "failed"}

\* The step of load_execution that worker w takes on its query for the row:
\* with the row absent the invocation ends, the wrapper returning status failed
\* with the not-found error of the row; with the row in the store it goes on
\* to the statement at pc
LoadStep(w, at, row, msg, pc) ==
    (wk[w].pc = at /\ wk'[w] # wk[w])
    => IF present[row]
       THEN wk'[w].pc = pc /\ wk'[w].ret = "none" /\ wk'[w].exc = ""
       ELSE wk'[w].pc = "done" /\ wk'[w].ret = "failed" /\ wk'[w].exc = msg

\* C11: when the query for the execution row, or the one for the workflow row
\* it references, finds no row, the invocation ends in load_execution: the
\* wrapper returns status failed with the not-found error; and up to the end
\* of load_execution no status, timestamp, error message or output is
\* written, no log row is appended, no node is dispatched, and after a
\* not-found error the execution id is not delivered again.
C11_NotFoundChangesNothing ==
    /\ [](\A w \in Workers :
            (wk[w].pc \in {"load", "load_wf"} \/ "lookup" \in wk[w].faults)
            => /\ status = "pending"
               /\ statusHist = <<"pending">>
               /\ started_at = 0
               /\ completed_at = 0
               /\ error_message = ""
               /\ ~output_data.present
               /\ logs = <<>>
               /\ wk[w].dispatched = <<>>
               /\ "lookup" \in wk[w].faults
                  => /\ wk[w].pc = "done"
                     /\ wk[w].ret = "failed"
                     /\ wk[w].exc \in {"Execution not found", "Workflow not found"}
                     /\ queue = 0
                     /\ \A v \in Workers \ {w} : wk[v].pc = "idle")
    /\ [][\A w \in Workers :
            /\ LoadStep(w, "load", "execution", "Execution not found", "load_wf")
            /\ LoadStep(w, "load_wf", "workflow", "Workflow not found", "set_running")]_vars

\* C11's case: the execution row was found, the workflow was deleted before
\* the query for it, and the invocation has ended with the not-found error
C11_Witness ==
    /\ ~present.workflow
    /\ \E w \in Workers :
          /\ wk[w].pc = "done"
          /\ wk[w].ret = "failed"
          /\ wk[w].exc = "Workflow not found"

\* C12: in an invocation, once the stored status is failed execute_workflow
\* does not return normally: it leaves by raising and the wrapper returns status
\* failed; and the wrapper returns status completed only while the stored status
\* is completed.
C12_FailureNeverSwallowed ==
    \A w \in Workers :
        /\ (status = "failed" /\ wk[w].pc # "idle")
           => /\ wk[w].pc \in {"log_failed", "done"}
              /\ wk[w].pc = "done" => (wk[w].ret = "failed" /\ wk[w].exc # "")
        /\ wk[w].ret = "completed" => status = "completed"

\* C12's case: the run was stored completed, the log write after it raised, the
\* except branch stored failed, and the wrapper has returned
C12_Witness ==
    \E w \in Workers :
        /\ wk[w].pc = "done"
        /\ statusHist = <<"pending", "running", "completed", "failed">>
        /\ wk[w].ret = "failed"

\* A step creates a run for the workflow k
RunCreatedFor(k) ==
    \E i \in (Len(api.runs) + 1)..Len(api'.runs) : api'.runs[i].workflow = k

\* C13: under any sequence of create, update, activate and execute requests,
\* handled one after the other or together, no step creates an execution run
\* for a workflow whose stored definition lacks the key nodes or has a value of
\* nodes that is no list.
C13_NoRunForInvalidDefinition ==
    [][\A k \in WorkflowKeys :
          (Found(api, k) /\ api.rows[k].definition.shape # "nodes_list")
          => ~RunCreatedFor(k)]_vars

\* C13's case: a workflow whose stored definition lacks nodes is stored with
\* the status active, an execute request was the last one answered, and no
\* run exists
C13_Witness ==
    /\ api.last.op = "execute"
    /\ api.last.code # 400
    /\ api.runs = <<>>
    /\ \E k \in WorkflowKeys :
          /\ Found(api, k)
          /\ api.rows[k].definition.shape = "no_nodes"
          /\ api.rows[k].status = "active"

\* C14: definition validation rejects every definition in which a connection
\* names, as source or target, an id that no node declares: a definition for
\* which validate_workflow_definition returned True has no such connection.
C14_ValidationRejectsDanglingConnection ==
    (/\ call.fn = "validate_workflow_definition"
     /\ call.done
     /\ call.result.t = "bool")
    => DeclaredOnly(call.a)

-----------------------------------------------------------------------------
(* Properties of the handler functions, under SpecEval *)

Min(S) == CHOOSE m \in S : \A y \in S : m <= y

\* s without the whitespace at its two ends
Trimmed(s) ==
    LET inked == {i \in 1..Len(s) : s[i] \notin Whitespace}
    IN  IF inked = {} THEN <<>> ELSE SubSeq(s, Min(inked), SetMax(inked))

\* Where the operator op first occurs in r
FirstAt(r, op) == Min({i \in 1..(Len(r) + 1) : OccursAt(r, op, i)})

\* The condition language over the operators ops = <<==, !=, >, <>> applied to
\* the resolved expression r: the first operator of the list that occurs in r
\* splits r at its first occurrence; == and != compare the trimmed operands as
\* strings, > and < compare them as numbers and are false when one of them is
\* no number; without an operator r is true when its trimmed text is not empty.
ConditionValue(r, ops) ==
    LET found == {k \in 1..Len(ops) : Contains(r, ops[k])}
    IN  IF found = {} THEN Trimmed(r) # <<>>
        ELSE LET k == Min(found)
                 i == FirstAt(r, ops[k])
                 left == Trimmed(SubSeq(r, 1, i - 1))
                 right == Trimmed(SubSeq(r, i + Len(ops[k]), Len(r)))
                 x == ParseFloat(left)
                 y == ParseFloat(right)
             IN  CASE k = 1 -> left = right
                   [] k = 2 -> left # right
                   [] k = 3 -> x.ok /\ y.ok /\ x.num * y.den > y.num * x.den
                   [] k = 4 -> x.ok /\ y.ok /\ x.num * y.den < y.num * x.den

\* The call was of a condition node whose condition is a str, and has returned
ConditionCallDone == call.fn = "condition" /\ call.done /\ call.a.t = "str"

\* The payload is {"condition_result": b}
IsConditionResult(payload, b) ==
    /\ Len(payload.v) = 1
    /\ payload.v[1][1] = K_condition_result
    /\ payload.v[1][2].t = "bool"
    /\ payload.v[1][2].v = b

\* Every dot-segment of the path exists in the data
RECURSIVE Resolves(_, _)
Resolves(data, parts) ==
    IF parts = <<>> THEN TRUE
    ELSE IF data.t = "dict"
    THEN KeyIndex(data.v, Head(parts)) # 0
         /\ Resolves(PyGet(data, Head(parts)), Tail(parts))
    ELSE IF data.t = "list"
    THEN /\ IsDigit(Head(parts))
         /\ NatValue(Head(parts)) < Len(data.v)
         /\ Resolves(data.v[NatValue(Head(parts)) + 1], Tail(parts))
    ELSE FALSE

\* The value the path leads to
RECURSIVE Target(_, _)
Target(data, parts) ==
    IF parts = <<>> THEN data
    ELSE IF data.t = "dict" THEN Target(PyGet(data, Head(parts)), Tail(parts))
    ELSE Target(data.v[NatValue(Head(parts)) + 1], Tail(parts))

\* C16: json_extract returns {result: v} when every segment of the dot-path
\* exists and leads to v, and an error payload {error: message} when a segment,
\* the last one included, is missing.
C16_JsonExtractMissingSegmentIsError ==
    (call.fn = "json_extract" /\ call.done)
    => LET parts == Split(call.b.v, ".")
           only == call.result.v[1]
       IN  /\ Len(call.result.v) = 1
           /\ IF Resolves(call.a, parts)
              THEN /\ only[1] = K_result
                   /\ only[2].t = Target(call.a, parts).t
                   /\ only[2].v = Target(call.a, parts).v
              ELSE only[1] = K_error

\* C17: on the resolved expression the condition evaluator uses the first of
\* " == ", " != ", " > ", " < " that occurs: == and != compare the trimmed
\* operands as strings, > and < compare them as numbers and give false when an
\* operand is no number; with no operator the result is true exactly when the
\* trimmed expression is not empty. "3 > 2" is true, "a == b" false,
\* "{{n}} > 1" with n = 5 true, "bogus > data" false.
C17_ConditionLanguage ==
    ConditionCallDone
    => /\ IsConditionResult(call.result,
             ConditionValue(replace_variables(call.a, call.b).v,
                            <<OpEq, OpNe, OpGt, OpLt>>))
       /\ call.a.v = CondExamples[1] => IsConditionResult(call.result, TRUE)
       /\ call.a.v = CondExamples[2] => IsConditionResult(call.result, FALSE)
       /\ (call.a.v = CondExamples[3] /\ call.b = CondContexts[2])
             => IsConditionResult(call.result, TRUE)
       /\ call.a.v = CondExamples[4] => IsConditionResult(call.result, FALSE)

\* C17's case: "{{n}} > 1" was evaluated with n = 5
C17_Witness ==
    /\ ConditionCallDone
    /\ call.a.v = CondExamples[3]
    /\ call.b = CondContexts[2]
    /\ IsConditionResult(call.result, TRUE)

\* C18: an operator is recognised wherever its substring ==, !=, > or <
\* occurs in the resolved expression, with or without spaces around it: the
\* result is that of the condition language over the bare operators, so "2>3"
\* is false as a comparison of numbers and "a==b" false as one of strings.
C18_OperatorNeedsNoSpaces ==
    ConditionCallDone
    => IsConditionResult(call.result,
          ConditionValue(replace_variables(call.a, call.b).v,
                         <<<<"=", "=">>, <<"!", "=">>, <<">">>, <<"<">>>>))

\* Where the placeholder {{name}} that starts at position i of s ends; 0 when
\* none starts there
PlaceholderEnd(s, i) ==
    IF OccursAt(s, <<"{", "{">>, i)
       /\ \E j \in (i + 4)..Len(s) :
             /\ OccursAt(s, <<"}", "}">>, j - 1)
             /\ \A k \in (i + 2)..(j - 2) : WordChar(s[k])
    THEN CHOOSE j \in (i + 4)..Len(s) :
             /\ OccursAt(s, <<"}", "}">>, j - 1)
             /\ \A k \in (i + 2)..(j - 2) : WordChar(s[k])
    ELSE 0

\* s with every placeholder whose name is a key of the context replaced by the
\* string form of the value, the others and all other text kept
RECURSIVE ResolvedStr(_, _, _)
ResolvedStr(s, i, context) ==
    IF i > Len(s) THEN <<>>
    ELSE LET j == PlaceholderEnd(s, i)
             name == SubSeq(s, i + 2, j - 2)
         IN  IF j = 0 THEN <<s[i]>> \o ResolvedStr(s, i + 1, context)
             ELSE IF KeyIndex(context.v, name) # 0
             THEN Str(PyGet(context, name)) \o ResolvedStr(s, j + 1, context)
             ELSE SubSeq(s, i, j) \o ResolvedStr(s, j + 1, context)

\* in is resolved to out: a str by ResolvedStr, a list item by item with the
\* same length, a dict value by value under the same keys, anything else kept
RECURSIVE ResolvedTo(_, _, _)
ResolvedTo(in, out, context) ==
    /\ out.t = in.t
    /\ CASE in.t = "str" -> out.v = ResolvedStr(in.v, 1, context)
         [] in.t \in {"list", "dict"} ->
               /\ Len(out.v) = Len(in.v)
               /\ \A i \in 1..Len(in.v) :
                     IF in.t = "list" THEN ResolvedTo(in.v[i], out.v[i], context)
                     ELSE /\ out.v[i][1] = in.v[i][1]
                          /\ ResolvedTo(in.v[i][2], out.v[i][2], context)
         [] OTHER -> out.v = in.v

\* The value holds no placeholder, at any depth
RECURSIVE NoPlaceholder(_)
NoPlaceholder(x) ==
    CASE x.t = "str" -> \A i \in 1..Len(x.v) : PlaceholderEnd(x.v, i) = 0
      [] x.t = "list" -> \A i \in 1..Len(x.v) : NoPlaceholder(x.v[i])
      [] x.t = "dict" -> \A i \in 1..Len(x.v) : NoPlaceholder(x.v[i][2])
      [] OTHER -> TRUE

\* C20: replace_variables replaces every {{name}} whose name is a key of the
\* context by the string form of the value, leaves every other {{name}} as it
\* is, resolves lists and dicts element by element keeping length and keys, and
\* returns a value equal to its input when the input holds no placeholder;
\* "{{x}}" with {x: "5"} gives "5".
C20_TemplateResolver ==
    (call.fn = "replace_variables" /\ call.done)
    => /\ ResolvedTo(call.a, call.result, call.b)
       /\ NoPlaceholder(call.a) => ResolvedTo(call.result, call.a, PyDict(<<>>))
       /\ (call.a.t = "str" /\ call.a.v = TemplTokens[1] /\ call.b = TemplContexts[1])
             => call.result.v = <<"5">>

\* C20's case: in the list ["{{x}}{{y}}", 1, ["{{x}}{{y}}"]] with the context
\* {x: "5"}, {{x}} was replaced and {{y}} kept, at both depths
C20_Witness ==
    /\ call.fn = "replace_variables"
    /\ call.done
    /\ call.b = TemplContexts[1]
    /\ call.a.t = "list"
    /\ call.a.v[1].v = TemplTokens[1] \o TemplTokens[2]
    /\ call.result.v[1].v = <<"5">> \o TemplTokens[2]
    /\ call.result.v[3].v[1].v = <<"5">> \o TemplTokens[2]

\* The number of placeholders {{name}} in s
NamedPlaceholders(s, name) ==
    Cardinality({i \in 1..Len(s) :
                    /\ PlaceholderEnd(s, i) # 0
                    /\ SubSeq(s, i + 2, PlaceholderEnd(s, i) - 2) = name})

\* The context maps x to the str "{{y}}" and y to a str without placeholder
NestedContext(context) ==
    /\ KeyIndex(context.v, <<"x">>) # 0
    /\ KeyIndex(context.v, <<"y">>) # 0
    /\ PyGet(context, <<"x">>).t = "str"
    /\ PyGet(context, <<"x">>).v = <<"{", "{", "y", "}", "}">>
    /\ PyGet(context, <<"y">>).t = "str"
    /\ NoPlaceholder(PyGet(context, <<"y">>))

\* C38: the text inserted for a placeholder is not scanned again. With a
\* context like {x: "{{y}}", y: "1"} every {{x}} of a str template is the literal
\* {{y}} in the result and every {{y}} of the template is gone, so the result
\* holds as many {{y}} as the template holds {{x}}; when there is one, a second
\* replace_variables on the result gives another value.
C38_SinglePassSubstitution ==
    (/\ call.fn = "replace_variables"
     /\ call.done
     /\ call.a.t = "str"
     /\ NestedContext(call.b))
    => /\ NamedPlaceholders(call.result.v, <<"y">>) = NamedPlaceholders(call.a.v, <<"x">>)
       /\ NamedPlaceholders(call.result.v, <<"x">>) = 0
       /\ NamedPlaceholders(call.a.v, <<"x">>) > 0
             => replace_variables(call.result, call.b) # call.result

\* C38's case: "{{x}} {{y}}" with {x: "{{y}}", y: "1"} gave "{{y}} 1", and a
\* second replace_variables on that gives "1 1"
C38_Witness ==
    /\ call.fn = "replace_variables"
    /\ call.done
    /\ NestedContext(call.b)
    /\ call.a.t = "str"
    /\ call.a.v = TemplTokens[1] \o <<" ">> \o TemplTokens[2]
    /\ call.result.v = TemplTokens[2] \o <<" ", "1">>
    /\ replace_variables(call.result, call.b).v = <<"1", " ", "1">>

-----------------------------------------------------------------------------
(* Data flow and condition nodes, under SpecFlow *)

\* The node a dispatched id stands for: the first node declared with it
NodeOf(id) == definition.nodes[Lookup(definition.nodes, id)]

\* C15: the context data a node is called with is the result of the node
\* executed before it, and the first node is called with none; for the start
\* node a connected to the end node b with input X the order is [a, b], the
\* output {a: {status: started, data: X}, b: {status: completed, final_data:
\* {status: started, data: X}}} and the final status completed.
C15_ContextIsPreviousResult ==
    \A w \in Workers :
        /\ \A i \in 1..Len(wk[w].saw) :
              IF i = 1 THEN ~wk[w].saw[i].has
              ELSE wk[w].saw[i].has /\ wk[w].saw[i].data = wk[w].results[i - 1]
        /\ (/\ wk[w].pc = "done"
            /\ Len(definition.nodes) = 2
            /\ definition.nodes[1].type = "start"
            /\ definition.nodes[2].type = "end"
            /\ definition.connections = <<Conn("a", "b")>>)
           => /\ wk[w].order = <<"a", "b">>
              /\ status = "completed"
              /\ output_data.present
              /\ output_data.dict.keys = <<"a", "b">>
              /\ output_data.dict.val["a"] = [status |-> "started", data |-> InputData]
              /\ output_data.dict.val["b"] =
                    [status |-> "completed",
                     final_data |-> [status |-> "started", data |-> InputData]]

\* C15's case: the run of start a -> end b has ended
C15_Witness ==
    \E w \in Workers :
        /\ wk[w].pc = "done"
        /\ Len(definition.nodes) = 2
        /\ definition.nodes[1].type = "start"
        /\ definition.nodes[2].type = "end"
        /\ definition.connections = <<Conn("a", "b")>>
        /\ Len(wk[w].saw) = 2

\* The result is {"condition_result": <bool>}, with an "error" entry beside a
\* false condition_result or without one
IsConditionOutput(x) ==
    /\ x.v[1][1] = K_condition_result
    /\ x.v[1][2].t = "bool"
    /\ \/ Len(x.v) = 1
       \/ Len(x.v) = 2 /\ x.v[2][1] = K_error /\ ~x.v[1][2].v

\* The entries of the order that name a declared node
Dispatchable(order) ==
    Cardinality({i \in 1..Len(order) : Lookup(definition.nodes, order[i]) # 0})

\* C19: a condition node whose parameters hold any condition, a str or not,
\* does not fail the run: its handler, once run, returns {condition_result: <bool>},
\* false with an error entry when the evaluation raised, and the engine goes on
\* to the next node; a run of such nodes and of nodes that cannot raise ends
\* completed with every node of the order dispatched.
C19_ConditionNodeNeverFailsRun ==
    \A w \in Workers :
        /\ \A i \in 1..Len(wk[w].dispatched) :
              (/\ NodeOf(wk[w].dispatched[i]).type = "condition"
               /\ NodeOf(wk[w].dispatched[i]).parameters = "map"
               /\ ~(wk[w].pc = "handler" /\ i = Len(wk[w].dispatched)))
              => /\ wk[w].raised # wk[w].dispatched[i]
                 /\ Len(wk[w].results) >= i
                 /\ IsConditionOutput(wk[w].results[i])
                 /\ (NodeOf(wk[w].dispatched[i]).condition.t # "str")
                       => Len(wk[w].results[i].v) = 2
        /\ (wk[w].pc = "done" /\ wk[w].raised = "")
           => /\ status = "completed"
              /\ Len(wk[w].dispatched) = Dispatchable(wk[w].order)

\* C19's case: a condition node whose condition is no str was evaluated, its
\* result carries the error, a further node was dispatched after it and the
\* run has ended completed
C19_Witness ==
    \E w \in Workers :
        /\ wk[w].pc = "done"
        /\ status = "completed"
        /\ Len(wk[w].dispatched) = 2
        /\ NodeOf(wk[w].dispatched[1]).type = "condition"
        /\ NodeOf(wk[w].dispatched[1]).condition.t = "int"
        /\ Len(wk[w].results[1].v) = 2

\* The ids among the first n of the order that name a declared node
DeclaredPrefix(order, n) ==
    SelectSeq(SubSeq(order, 1, n), LAMBDA id : Lookup(definition.nodes, id) # 0)

\* The i-th dispatched node is a condition node that returned this
\* condition_result
ConditionReturned(w, i, b) ==
    /\ i <= Len(wk[w].results)
    /\ NodeOf(wk[w].dispatched[i]).type = "condition"
    /\ wk[w].results[i].v[1][2].v = b

\* C33: the result of a condition node does not change which nodes run: while
\* no handler has raised, the nodes dispatched are the declared nodes of the
\* execution order up to the loop's position, in that order, and a run that
\* ends without a raise has dispatched them all, whatever the condition nodes
\* among them returned.
C33_ConditionResultNeverBranches ==
    \A w \in Workers :
        /\ (wk[w].pc = "nodes" /\ wk[w].raised = "")
           => wk[w].dispatched = DeclaredPrefix(wk[w].order, wk[w].i - 1)
        /\ (wk[w].pc = "done" /\ wk[w].raised = "")
           => wk[w].dispatched = DeclaredPrefix(wk[w].order, Len(wk[w].order))

\* C33's case: a condition node returned false, the condition node after it
\* was dispatched and returned true, and the run has ended
C33_Witness ==
    \E w \in Workers :
        /\ wk[w].pc = "done"
        /\ Len(wk[w].dispatched) = 2
        /\ ConditionReturned(w, 1, FALSE)
        /\ ConditionReturned(w, 2, TRUE)

-----------------------------------------------------------------------------
(* http_request failures, progress, logs and output of a run, under SpecFlow *)

\* The position in dispatched of the last dispatch of the node id
LastDispatch(d, id) == CHOOSE i \in 1..Len(d) : d[i] = id /\ \A j \in (i + 1)..Len(d) : d[j] # id

\* C21: an http_request node whose call or whose response parsing fails does
\* not raise: its result is {error: message, status_code: 0}, the result is
\* stored in the output under the node's id (until the handler of a later node
\* of the same id returns and replaces it), and the run goes on to the next node and ends completed when
\* no handler raises.
C21_HttpFailureIsResult ==
    \A w \in Workers :
        /\ \A i \in 1..Len(wk[w].results) :
              wk[w].saw[i].net \in {"err", "bad_json"}
              => /\ wk[w].results[i] =
                       [error |-> HttpErrorMessage(wk[w].saw[i].net), status_code |-> 0]
                 /\ wk[w].raised # wk[w].dispatched[i]
                 /\ wk[w].out.val[wk[w].dispatched[i]] =
                       wk[w].results[LastDispatch(SubSeq(wk[w].dispatched, 1, Len(wk[w].results)),
                                                  wk[w].dispatched[i])]
                 /\ (i = Len(wk[w].dispatched))
                    => wk[w].pc \in {"progress", "nodes", "set_completed",
                                     "commit_completed", "log_completed", "done"}
        /\ (wk[w].pc = "done" /\ wk[w].raised = "")
           => /\ status = "completed"
              /\ Len(wk[w].dispatched) = Dispatchable(wk[w].order)
              /\ output_data.dict = wk[w].out

\* C21's case: the call of the first node failed, the next node was dispatched
\* and the run ended completed with the error payload in its output
C21_Witness ==
    \E w \in Workers :
        /\ wk[w].pc = "done"
        /\ status = "completed"
        /\ Len(wk[w].dispatched) = 2
        /\ wk[w].dispatched[1] # wk[w].dispatched[2]
        /\ wk[w].saw[1].net = "bad_json"
        /\ output_data.dict.val[wk[w].dispatched[1]] =
              [error |-> "Expecting value", status_code |-> 0]

\* C27: the progress emitted after the i-th executed node of a run with n nodes
\* is i / n * 100 (as fractions: num / den = i / n), the values of a run are
\* strictly increasing, and the last one before completed is 100.
C27_ProgressIsShareOfNodes ==
    \A w \in Workers :
        LET p == wk[w].progress
            n == Len(definition.nodes)
        IN  /\ \A i \in 1..Len(p) : p[i].num * n = i * p[i].den
            /\ \A i, j \in 1..Len(p) : i < j => p[i].num * p[j].den < p[j].num * p[i].den
            /\ (status = "completed" /\ p # <<>>) => p[Len(p)].num = p[Len(p)].den

\* The rows a run writes, given the nodes it has dispatched: the start entry,
\* one info entry per dispatched node, then the error entries of the node that
\* raised and of the run, or the entry of the completion
RunTrace(w) ==
    <<LogEntry("info", "Starting workflow execution", "")>>
    \o [i \in 1..Len(wk[w].dispatched) |->
           LogEntry("info", "Executing node", wk[w].dispatched[i])]
    \o (IF wk[w].raised # ""
        THEN <<LogEntry("error", "Error executing node", wk[w].raised),
               LogEntry("error", ErrorMsg(HandlerError), "")>>
        ELSE <<LogEntry("info", "Workflow execution completed successfully", "")>>)

\* C28: the log of a run only grows, and holds in order the start entry, one
\* info entry per dispatched node, then the terminal entry; when node k raises
\* it holds the info entries of the nodes up to k, k's error entry and the
\* run's error entry, and k is the last node with an entry.
C28_LogIsOrderedTrace ==
    /\ [][Len(logs') >= Len(logs) /\ SubSeq(logs', 1, Len(logs)) = logs]_vars
    /\ [](\A w \in Workers :
            /\ wk[w].pc # "idle"
               => /\ Len(logs) <= Len(RunTrace(w))
                  /\ logs = SubSeq(RunTrace(w), 1, Len(logs))
                  /\ wk[w].dispatched # <<>> => Len(logs) >= 1 + Len(wk[w].dispatched)
            /\ wk[w].pc = "done"
               => /\ logs = RunTrace(w)
                  /\ wk[w].raised # ""
                     => wk[w].dispatched[Len(wk[w].dispatched)] = wk[w].raised)

\* C28's case: the second node raised, the run has ended and the log holds the
\* five rows of the trace
C28_Witness ==
    \E w \in Workers :
        /\ wk[w].pc = "done"
        /\ Len(wk[w].dispatched) = 2
        /\ wk[w].raised = wk[w].dispatched[2]
        /\ wk[w].raised # wk[w].dispatched[1]
        /\ Len(definition.nodes) = 2
        /\ Len(logs) = 5

\* The results accumulated under the node ids: the ids in the order of their
\* first dispatch, each with the result of its last dispatch
Accumulated(d, r) ==
    LET n == Len(r)
        firsts == SelectSeq([i \in 1..n |-> i], LAMBDA i : \A j \in 1..(i - 1) : d[j] # d[i])
    IN  [keys |-> [k \in 1..Len(firsts) |-> d[firsts[k]]],
         ids  |-> {d[i] : i \in 1..n},
         last |-> [id \in {d[i] : i \in 1..n} |->
                      r[CHOOSE i \in 1..n : d[i] = id /\ \A j \in (i + 1)..n : d[j] # id]]]

\* C29: output_data is written only with the transition to completed: while
\* the status is pending, running or failed the run has no output_data, also
\* when nodes returned results before the failure; when it is completed the
\* output_data is the accumulated results of the nodes.
C29_OutputOnlyWithCompleted ==
    /\ status \in {"pending", "running", "failed"} => ~output_data.present
    /\ status = "completed"
       => /\ output_data.present
          /\ \E w \in Workers :
                LET acc == Accumulated(wk[w].dispatched, wk[w].results)
                IN  /\ wk[w].pc \in {"log_completed", "done"}
                    /\ output_data.dict.keys = acc.keys
                    /\ \A id \in acc.ids : output_data.dict.val[id] = acc.last[id]

\* C30: within one invocation every node is dispatched at most once: the node
\* whose handler raised is the last one dispatched, and once the run is marked
\* failed the engine is past the loop over the nodes.
C30_NodeDispatchedAtMostOnce ==
    \A w \in Workers :
        /\ Distinct(wk[w].dispatched)
        /\ wk[w].raised # "" => wk[w].dispatched[Len(wk[w].dispatched)] = wk[w].raised
        /\ (status = "failed" /\ wk[w].pc # "idle") => wk[w].pc \in {"log_failed", "done"}

-----------------------------------------------------------------------------
(* The call of an http_request node, under SpecEval *)

\* C22: before the call, the http_request handler passes the url, the headers
\* and the data parameter each through the template resolver: the call is
\* issued with the resolved url, the resolved headers and, for a method that
\* sends a body, the resolved data.
C22_HttpParametersResolved ==
    (call.fn = "http_request" /\ call.done)
    => /\ PyGet(call.result, K_url)
            = replace_variables(PyGetOr(call.a, K_url, PyStr(<<>>)), call.b)
       /\ PyGet(call.result, K_headers)
            = replace_variables(PyGetOr(call.a, K_headers, PyDict(<<>>)), call.b)
       /\ PyGet(call.result, K_json).t # "none"
          => PyGet(call.result, K_json)
                = replace_variables(PyGetOr(call.a, K_data, PyDict(<<>>)), call.b)

-----------------------------------------------------------------------------
(* Two concurrent runs, under SpecPair *)

RECURSIVE AloneSteps(_, _, _, _)
\* The loop over the order of a run that nothing interleaves with, from
\* position i: acc holds context["data"], the accumulator, the ids dispatched
\* and the id of the node that raised
AloneSteps(d, order, i, acc) ==
    IF i > Len(order) THEN acc
    ELSE LET k == Lookup(d.nodes, order[i])
         IN  IF k = 0 THEN AloneSteps(d, order, i + 1, acc)
             ELSE IF HandlerRaises(d.nodes[k])
             THEN [acc EXCEPT !.ids = Append(@, order[i]), !.failed = order[i]]
             ELSE LET result == HandlerResult(d.nodes[k], acc, "ok")
                  IN  AloneSteps(d, order, i + 1,
                                 [acc EXCEPT !.has_data = TRUE, !.data = result,
                                             !.out = DictSet(@, order[i], result),
                                             !.ids = Append(@, order[i])])

\* The final status, output_data and log rows of the run of definition d
\* executed alone
Alone(d) ==
    LET acc == AloneSteps(d, build_execution_order(d.nodes, d.connections), 1,
                          [has_data |-> FALSE, data |-> EmptyDict, out |-> NewDict,
                           ids |-> <<>>, failed |-> ""])
    IN  [status |-> IF acc.failed = "" THEN "completed" ELSE "failed",
         output_data |-> IF acc.failed = "" THEN [present |-> TRUE, dict |-> acc.out]
                         ELSE [present |-> FALSE, dict |-> NewDict],
         logs |-> <<LogEntry("info", "Starting workflow execution", "")>>
                  \o [i \in 1..Len(acc.ids) |-> LogEntry("info", "Executing node", acc.ids[i])]
                  \o (IF acc.failed = ""
                      THEN <<LogEntry("info", "Workflow execution completed successfully", "")>>
                      ELSE <<LogEntry("error", "Error executing node", acc.failed),
                             LogEntry("error", ErrorMsg(HandlerError), "")>>)]

\* The execution_logs rows of execution e, in insertion order
LogsOf(e) == SelectSeq(logs, LAMBDA row : row.execution_id = e)

\* C23: when two runs with different execution ids execute concurrently in
\* different workers, under every interleaving of their steps each run ends
\* with the status, the output_data and the log rows it has when executed
\* alone (stated of the run the variables show; either run is shown at its end).
C23_ConcurrentRunsAreIndependent ==
    (peer.eid # "none" /\ \E w \in Workers : wk[w].pc = "done")
    => /\ status = Alone(definition).status
       /\ output_data = Alone(definition).output_data
       /\ LogsOf(eid) = Alone(definition).logs

\* C23's case: both runs have ended, the one shown failed at its second node,
\* and rows of the other run lie between its rows in execution_logs
C23_Witness ==
    /\ peer.eid # "none"
    /\ \E w \in Workers : wk[w].pc = "done" /\ wk[w].raised # ""
    /\ \E w \in Workers : peer.wk[w].pc = "done"
    /\ peer.status = "completed"
    /\ \E i, j, k \in 1..Len(logs) :
          /\ i < j /\ j < k
          /\ logs[i].execution_id = eid
          /\ logs[j].execution_id = peer.eid
          /\ logs[k].execution_id = eid

-----------------------------------------------------------------------------
(* Properties of the notification channel *)

\* The websocket is in the list of its user
Listed(c) ==
    Owner(c) \in DOMAIN ws.active /\ InSeq(ws.active[Owner(c)], c)

\* The coroutine k got send_text to return on the websocket c
SentTo(k, c) == \E s \in ws.sent : s.task = k /\ s.conn = c

\* C24: when the send to a websocket fails, no exception leaves send_to_user or
\* the broadcasts; once the coroutine has returned, the failing websockets are
\* out of their users' lists and every other websocket of the targeted users
\* that is still open was sent the message.
C24_SendFailureIsContained ==
    ws.on =>
        \A k \in 1..Len(ws.tasks) :
            LET t == ws.tasks[k]
            IN  t.failed # {} =>
                    /\ t.raised = ""
                    /\ t.pc = "done" =>
                          /\ \A c \in t.failed : ~Listed(c)
                          /\ \A c \in t.snap \ t.failed :
                                ws.sock[c] = "open" /\ c \notin ws.broken => SentTo(k, c)

\* C25: an execution event is sent to a websocket only of a user who is
\* subscribed to the workflow or to the execution of the event when the send
\* to that websocket begins: once the user has unsubscribed from both, or a
\* disconnect has removed the user from the sets, no send of the event to a
\* websocket of the user begins.
C25_EventsOnlyToSubscribers ==
    ws.on => \A s \in ws.sent : s.kind = "event" => s.live

\* The websocket of the pending send_text is still where the loop of
\* send_to_user took it from: the list is in the dict and holds it at the index
ListIntact(t) ==
    t.pc = "await_send" =>
        /\ ~t.lorphan
        /\ t.user \in DOMAIN ws.active
        /\ t.idx <= Len(ws.active[t.user])
        /\ ws.active[t.user][t.idx] = t.cur

\* C31: under any interleaving of the sends and broadcasts, at their awaits,
\* with connect, disconnect, subscribe and unsubscribe, no exception leaves a
\* coroutine of the manager (a failed websocket is removed once), the set of
\* subscribers a broadcast iterates is not changed or deleted under it, and the
\* list a send iterates keeps the websocket being sent to.
C31_NoRaiseUnderInterleaving ==
    ws.on =>
        \A k \in 1..Len(ws.tasks) :
            LET t == ws.tasks[k]
            IN  /\ t.raised = ""
                /\ ~t.dirty
                /\ ~t.orphan
                /\ ListIntact(t)

\* C34: every user id that is a key of active_connections has at least one
\* websocket in its list, and connected_users of get_connection_stats is the
\* number of users with a listed websocket.
C34_NoUserWithoutConnection ==
    ws.on =>
        /\ \A u \in DOMAIN ws.active : ws.active[u] # <<>>
        /\ get_connection_stats(ws).connected_users
              = Cardinality({Owner(c) : c \in {x \in Conns : Listed(x)}})

\* C35: once manager.disconnect was called for a websocket of a user, and
\* until the user subscribes again, the user is in no set of
\* workflow_subscriptions or execution_subscriptions, other open websockets or
\* not, and no send of a workflow or execution broadcast to a websocket of the
\* user begins.
C35_DisconnectDropsSubscriptions ==
    ws.on =>
        /\ \A u \in Users : ws.dropped[u] # "no" => ~InAnySet(ws, u)
        /\ \A s \in ws.sent : s.kind \in {"event", "workflow"} => ~s.late

\* The sends of the coroutine k that returned on the websocket c
SendsTo(k, c) == {s \in ws.sent : s.task = k /\ s.conn = c}

\* C36: an execution event is sent at most once to a websocket, and, when no
\* endpoint has acted since the event was called, exactly once to every listed,
\* open websocket of a user subscribed to the workflow or to the execution of
\* the event, a user subscribed to both included.
C36_EachConnectionSentOnce ==
    ws.on =>
        \A k \in 1..Len(ws.tasks) :
            ws.tasks[k].kind = "event" =>
                /\ \A c \in Conns : Cardinality(SendsTo(k, c)) <= 1
                /\ (ws.tasks[k].pc = "done" /\ ws.tasks[k].quiet)
                   => \A c \in Conns :
                         (/\ Listed(c)
                          /\ ws.sock[c] = "open"
                          /\ c \notin ws.broken
                          /\ Subscribed(ws, Owner(c)))
                         => Cardinality(SendsTo(k, c)) = 1

\* C37: the events of a workflow and of its executions are sent only to the
\* websockets of the user who owns the workflow, whatever workflow or execution
\* ids the other users named in their subscribe messages.
C37_EventsOnlyToOwner ==
    ws.on =>
        \A s \in ws.sent :
            ws.tasks[s.task].kind \in {"event", "workflow"}
            => Owner(s.conn) = WorkflowOwner(EventWorkflow)

\* C39: no key of workflow_subscriptions or execution_subscriptions maps to an
\* empty set, whatever subscribe and unsubscribe messages and disconnects the
\* endpoints have handled and wherever the broadcasts stand.
C39_NoEmptySubscriptionSet ==
    ws.on =>
        /\ \A id \in DOMAIN ws.wsubs : ws.wsubs[id] # {}
        /\ \A id \in DOMAIN ws.esubs : ws.esubs[id] # {}

\* C39's case: an unsubscribe message took the last user out of a set while
\* the user's websocket stays open, and both dicts have no key
C39_Witness ==
    /\ ws.on
    /\ ws.emptied
    /\ \E c \in Conns : Listed(c) /\ ws.sock[c] = "open"
    /\ DOMAIN ws.wsubs = {}
    /\ DOMAIN ws.esubs = {}

====
